---- MODULE Spec2Model ----
(***************************************************************************)
(* Call-processing backend: the session endpoints of backend/app/main.py   *)
(* (start_call, upload_audio, end_call), the background run                *)
(* process_call_audio_after_end, the persistence layer of                  *)
(* backend/app/services/database.py, the one-shot upload endpoint of       *)
(* backend/app/api/hackathon_endpoints.py and the insight extractor        *)
(* generate_summary_from_text of backend/app/services/ai_service.py.       *)
(*                                                                         *)
(* Request handlers are coroutines: a handler is split into one action per *)
(* stretch of code between two awaits that touch the database, so that     *)
(* concurrent requests interleave exactly where the event loop lets them.  *)
(***************************************************************************)
EXTENDS Integers, Sequences, FiniteSets, TLC

----------------------------------------------------------------------------
(* Bounds *)

MaxRequests == 3    \* upload_audio and end_call requests issued in one behaviour
MaxDbFaults == 1    \* persistence writes that fail in one behaviour

MaxCalls == 2       \* upload_call_audio requests issued in one behaviour
MaxQueries == 2     \* GET requests answered in one behaviour
MaxSocketRequests == 2  \* join_call_session and leave_call_session events handled
MaxTokens == 3          \* words of any kind in a redacted text
MaxNameTokens == 7      \* words in a redacted text of names and plain words
MaxFrames == 7          \* hops of audio in an analysed clip
MaxSyncAttempts == 4    \* sync_call_summary and retry_sync calls per session

Sessions == {"s1"}
UploadIds == 1..MaxRequests
EndIds == 1..MaxRequests
Clients == {"c1", "c2"}     \* socket ids of the connected clients
CallIds == 1..MaxCalls

----------------------------------------------------------------------------
(* Constants of the program *)

\* call_models.CallStatus, plus "none" for a session_id with no document
CallStatus == {"active", "ended", "processing"}
NoSession == "none"

\* progress fractions are kept in thousandths (0.1 is 100, 1.0 is 1000)
ProgressProcessing == 100
ProgressFilesSpan == 600
ProgressSummary == 800
ProgressSyncing == 900
ProgressCompleted == 1000
ProgressError == 0
Thousandths == 1000

HTTP_OK == 200
HTTP_ACCEPTED == 202
HTTP_BAD_REQUEST == 400
HTTP_NOT_FOUND == 404
HTTP_SERVER_ERROR == 500

VARIABLES
    ai,            \* services["ai"] is not None (set once by startup_event)
    status,        \* db.calls: status of the session document
    audio_files,   \* db.calls: metadata["audio_files"], artifacts in order
    summaries,     \* db.summaries: number of is_final documents per session
    analytics,     \* db.analytics: number of documents per session
    crm,           \* MockCRMIntegration.synced_records: status per session
    syncLog,       \* the rest of the synced_records entry and the attempts made
    dbFaults,      \* persistence writes that have failed so far
    startResp,     \* status code of the last start_call response
    up,            \* upload_audio requests
    en,            \* end_call requests
    run,           \* background runs, one per end_call request that scheduled it
    uploadEvents,  \* audio_processing_status events emitted by upload_audio
    socket,        \* SocketHandler: the server's rooms and what each client was sent
    hkUpload,      \* upload_call_audio requests
    hkCalls,       \* hackathon db.calls: one record per accepted upload
    hkTask,        \* process_call_async tasks
    hkQuery,       \* last answer of each GET endpoint of a call
    extract,       \* one call of generate_summary_from_text: input and result
    analysis,      \* one call of analyze_audio_properties: clip and result
    redact         \* one call of a transcript redactor: text in and text out

\* the one-shot upload API of hackathon_endpoints.py
hkVars == <<hkUpload, hkCalls, hkTask, hkQuery>>

\* the session API of main.py
sessionVars == <<ai, status, audio_files, summaries, analytics, crm, syncLog,
                 startResp, up, en, run, uploadEvents, socket>>

vars == <<ai, status, audio_files, summaries, analytics, crm, syncLog, dbFaults,
          startResp, up, en, run, uploadEvents, socket, hkUpload, hkCalls, hkTask, hkQuery,
          extract, analysis, redact>>

----------------------------------------------------------------------------
(* Helpers *)

\* A persistence write either succeeds or, while the budget lasts, fails.
WriteOutcomes == IF dbFaults < MaxDbFaults THEN {TRUE, FALSE} ELSE {TRUE}

Fault(ok) == IF ok THEN dbFaults ELSE dbFaults + 1

\* except Exception as e: raise HTTPException(status_code=500, ...):
\* whatever was raised inside the handler's try block, HTTPException
\* included, leaves the handler as a 500.
HandlerResponse(raised) == IF raised = HTTP_OK THEN HTTP_OK ELSE HTTP_SERVER_ERROR

IdleUpload == [pc |-> "idle", sid |-> "s1", snap |-> <<>>, cause |-> "none", resp |-> 0]
IdleEnd == [pc |-> "idle", sid |-> "s1", snap |-> <<>>, cause |-> "none", resp |-> 0]
IdleRun == [pc |-> "idle", sid |-> "s1", files |-> <<>>, i |-> 0,
            transcript |-> <<>>, failed |-> {},
            temp |-> {}, summary_data |-> "none", saved |-> FALSE,
            events |-> <<>>, texted |-> {}, update_data |-> <<>>,
            summary_broadcast |-> FALSE, sync |-> "none"]

\* The session ids a client may name when it joins: join_call_session takes
\* any session_id, whether or not a call session of that id exists.
RoomIds == {"s1", "s2"}

\* socketio.AsyncServer and SocketHandler after construction: nobody in any
\* room, nothing sent, active_sessions empty, no client disconnected yet.
\* active_sessions is a dict: its entries are kept in insertion order.
IdleSocket == [rooms |-> [s \in RoomIds |-> {}],
               received |-> [c \in Clients |-> <<>>],
               requests |-> 0,
               active_sessions |-> <<>>,
               gone |-> {}]

\* No entry in synced_records, no attempt made, no status asked.
NoSyncLog == [attempts |-> 0, last |-> "none", crm_record_id |-> 0, retry_count |-> 0,
              report |-> [status |-> "none", crm_record_id |-> 0]]

IdleHkUpload == [pc |-> "idle", suffix |-> "", cause |-> "none", resp |-> 0]
NoCallRecord == [status |-> "none", transcript |-> "none", insights |-> FALSE]
IdleHkTask == [pc |-> "idle", path |-> "none", transcript |-> "none", data |-> "none"]

\* No GET request answered yet.
NoAnswer == [code |-> 0, detail |-> "none", of |-> "none"]
NoQuery == [status |-> NoAnswer, transcript |-> NoAnswer, summary |-> NoAnswer, asked |-> 0]

\* Requests issued so far.
Issued == Cardinality({u \in UploadIds : up[u].pc # "idle"})
            + Cardinality({e \in EndIds : en[e].pc # "idle"})

Event(stage, idx, of, progress) ==
    [stage |-> stage, idx |-> idx, of |-> of, progress |-> progress]

\* JSON values of the extraction response, by type and content
Str(v) == [type |-> "string", val |-> v]
List(v) == [type |-> "list", val |-> v]
Bool(v) == [type |-> "bool", val |-> v]
Null == [type |-> "null", val |-> "null"]
Missing == [type |-> "missing", val |-> "missing"]

\* dict.get(key) on a key that may be absent: None for a missing key
Get(v) == IF v = Missing THEN Null ELSE v

\* dict.get(key, default)
GetOr(v, default) == IF v = Missing THEN default ELSE v

\* an object with none of the insight keys
NoObject == [summary |-> Missing, sentiment |-> Missing, category |-> Missing,
             action_items |-> Missing, customer_requests |-> Missing,
             resolution_status |-> Missing, priority |-> Missing, tags |-> Missing,
             follow_up_required |-> Missing]

NoResult == [from |-> "none", dict |-> FALSE, fields |-> NoObject]

IdleExtract == [pc |-> "idle", chars |-> 0,
                response |-> [kind |-> "none", obj |-> NoObject],
                submitted |-> [chars |-> 0, marker |-> FALSE], requests |-> 0,
                result |-> NoResult]

\* No clip analysed yet.
IdleAnalysis == [pc |-> "idle", y_len |-> 0, rms |-> <<>>, fault |-> "none",
                 result |-> [pending |-> TRUE]]

\* No text redacted yet.
IdleRedact == [redactor |-> "none", tokens |-> <<>>, text |-> <<>>, applied |-> 0,
               out |-> <<>>, again |-> <<>>]

----------------------------------------------------------------------------
\* The state after startup_event, before any request.
InitServices ==
    /\ ai \in BOOLEAN
    /\ status = [s \in Sessions |-> NoSession]
    /\ audio_files = [s \in Sessions |-> <<>>]
    /\ summaries = [s \in Sessions |-> 0]
    /\ analytics = [s \in Sessions |-> 0]
    /\ crm = [s \in Sessions |-> "not_synced"]
    /\ syncLog = [s \in Sessions |-> NoSyncLog]
    /\ dbFaults = 0
    /\ startResp = [s \in Sessions |-> 0]
    /\ up = [u \in UploadIds |-> IdleUpload]
    /\ en = [e \in EndIds |-> IdleEnd]
    /\ run = [e \in EndIds |-> IdleRun]
    /\ uploadEvents = {}
    /\ socket = IdleSocket
    /\ hkUpload = [c \in CallIds |-> IdleHkUpload]
    /\ hkCalls = [c \in CallIds |-> NoCallRecord]
    /\ hkTask = [c \in CallIds |-> IdleHkTask]
    /\ hkQuery = [c \in CallIds |-> NoQuery]

Init ==
    /\ InitServices
    /\ extract = IdleExtract
    /\ analysis = IdleAnalysis
    /\ redact = IdleRedact

----------------------------------------------------------------------------
(* socket_handler.py *)

\* an emit that goes to every connected client, whatever room it is in
EmitToAll(s, ev) ==
    [socket EXCEPT !.received = [c \in Clients |-> Append(@[c], ev)]]

\* sio.emit(event, data, room=room): one copy to each client that is in the
\* room when the emit is made
EmitToRoom(s, ev) ==
    [socket EXCEPT !.received =
        [c \in Clients |-> IF c \in socket.rooms[s] THEN Append(@[c], ev) ELSE @[c]]]

\* sio.emit('audio_processing_status', {...}, room=f"call_{session_id}")
broadcast_audio_processing_status(s, ev) == EmitToRoom(s, ev)

\* The position of session_id s in active_sessions, 0 when it has no entry.
EntryOf(reg, s) ==
    IF \E i \in 1..Len(reg) : reg[i].session_id = s
    THEN CHOOSE i \in 1..Len(reg) : reg[i].session_id = s
    ELSE 0

\* list.remove(sid): the first occurrence only.
RemoveFirst(clients, c) ==
    LET i == CHOOSE j \in 1..Len(clients) :
                 clients[j] = c /\ \A k \in 1..(j - 1) : clients[k] # c
    IN SubSeq(clients, 1, i - 1) \o SubSeq(clients, i + 1, Len(clients))

\* del active_sessions[session_id]
DeleteEntry(reg, i) == SubSeq(reg, 1, i - 1) \o SubSeq(reg, i + 1, Len(reg))

\* join_call_session, "Track the session": a first join creates the entry
\* with start_time now, and every join appends the sid to its clients.
Track(reg, s, c) ==
    LET known == IF EntryOf(reg, s) = 0
                 THEN Append(reg, [session_id |-> s, clients |-> <<>>,
                                   status |-> "active", old |-> FALSE])
                 ELSE reg
    IN [known EXCEPT ![EntryOf(known, s)].clients = Append(@, c)]

\* leave_call_session, "Remove client from session tracking"
Untrack(reg, s, c) ==
    LET i == EntryOf(reg, s)
    IN IF i # 0 /\ \E j \in 1..Len(reg[i].clients) : reg[i].clients[j] = c
       THEN [reg EXCEPT ![i].clients = RemoveFirst(@, c)]
       ELSE reg

\* The loop of cleanup_client_sessions from entry i on. An entry that holds
\* the sid loses one occurrence of it; an entry left without clients becomes
\* inactive and, when older than an hour, is deleted inside the loop over
\* the dict, so the next step of the iterator raises RuntimeError and the
\* except clause ends the pass with the later entries untouched.
RECURSIVE CleanupFrom(_, _, _)
CleanupFrom(reg, i, c) ==
    IF i > Len(reg) THEN reg
    ELSE IF \A j \in 1..Len(reg[i].clients) : reg[i].clients[j] # c
    THEN CleanupFrom(reg, i + 1, c)
    ELSE LET left == RemoveFirst(reg[i].clients, c)
         IN IF left # <<>>
            THEN CleanupFrom([reg EXCEPT ![i].clients = left], i + 1, c)
            ELSE IF reg[i].old
            THEN DeleteEntry(reg, i)
            ELSE CleanupFrom([reg EXCEPT ![i].clients = left,
                                         ![i].status = "inactive"], i + 1, c)

cleanup_client_sessions(reg, c) == CleanupFrom(reg, 1, c)

\* enter_room(sid, f"call_{session_id}") and the entry in active_sessions
join_call_session(c, s) ==
    /\ socket.requests < MaxSocketRequests
    /\ c \notin socket.gone
    /\ socket' = [socket EXCEPT !.rooms[s] = @ \cup {c}, !.requests = @ + 1,
                                !.active_sessions = Track(@, s, c)]
    /\ UNCHANGED <<extract, analysis, redact, hkVars, ai, status, audio_files, summaries, analytics, crm,
                   syncLog, dbFaults, startResp, up, en, run, uploadEvents>>

\* leave_room(sid, f"call_{session_id}")
leave_call_session(c, s) ==
    /\ socket.requests < MaxSocketRequests
    /\ c \notin socket.gone
    /\ socket' = [socket EXCEPT !.rooms[s] = @ \ {c}, !.requests = @ + 1,
                                !.active_sessions = Untrack(@, s, c)]
    /\ UNCHANGED <<extract, analysis, redact, hkVars, ai, status, audio_files, summaries, analytics, crm,
                   syncLog, dbFaults, startResp, up, en, run, uploadEvents>>

\* disconnect: the server takes the sid out of every room and the handler
\* calls cleanup_client_sessions; a sid that disconnected is never used again.
disconnect(c) ==
    /\ c \notin socket.gone
    /\ socket' = [socket EXCEPT !.rooms = [s \in RoomIds |-> @[s] \ {c}],
                                !.active_sessions = cleanup_client_sessions(@, c),
                                !.gone = @ \cup {c}]
    /\ UNCHANGED <<extract, analysis, redact, hkVars, ai, status, audio_files, summaries, analytics, crm,
                   syncLog, dbFaults, startResp, up, en, run, uploadEvents>>

\* Time passing: the entries now in active_sessions become older than the
\* 3600 seconds that cleanup_client_sessions compares session_age with.
hour_passes ==
    /\ \E i \in 1..Len(socket.active_sessions) : ~socket.active_sessions[i].old
    /\ socket' = [socket EXCEPT !.active_sessions =
                      [i \in 1..Len(@) |-> [@[i] EXCEPT !.old = TRUE]]]
    /\ UNCHANGED <<extract, analysis, redact, hkVars, ai, status, audio_files, summaries, analytics, crm,
                   syncLog, dbFaults, startResp, up, en, run, uploadEvents>>

----------------------------------------------------------------------------
(* start_call *)

\* create_call_session inserts the document; the unique index on session_id
\* makes a second insert raise, and any raise leaves the handler as a 500.
start_call(s) ==
    /\ IF status[s] # NoSession
       THEN /\ startResp' = [startResp EXCEPT ![s] = HandlerResponse(HTTP_SERVER_ERROR)]
            /\ UNCHANGED <<status, dbFaults>>
       ELSE \E ok \in WriteOutcomes :
              /\ dbFaults' = Fault(ok)
              /\ status' = [status EXCEPT ![s] = IF ok THEN "active" ELSE @]
              /\ startResp' = [startResp EXCEPT ![s] =
                     HandlerResponse(IF ok THEN HTTP_OK ELSE HTTP_SERVER_ERROR)]
    /\ UNCHANGED <<extract, analysis, redact, hkVars, ai, audio_files, summaries, analytics, crm, syncLog, up, en, run, uploadEvents, socket>>

----------------------------------------------------------------------------
(* upload_audio *)

\* Up to the first write: get_call_session, the two checks, and the snapshot
\* of metadata["audio_files"] the handler keeps working on.
upload_audio_begin(u, s) ==
    /\ up[u].pc = "idle"
    /\ Issued < MaxRequests
    /\ \A v \in UploadIds : v < u => up[v].pc # "idle"
    /\ IF status[s] = NoSession
       THEN up' = [up EXCEPT ![u] = [@ EXCEPT !.pc = "done", !.sid = s,
                       !.cause = "not_found",
                       !.resp = HandlerResponse(HTTP_NOT_FOUND)]]
       ELSE IF status[s] # "active"
       THEN up' = [up EXCEPT ![u] = [@ EXCEPT !.pc = "done", !.sid = s,
                       !.cause = "not_active",
                       !.resp = HandlerResponse(HTTP_BAD_REQUEST)]]
       ELSE up' = [up EXCEPT ![u] = [@ EXCEPT !.pc = "saving", !.sid = s,
                       !.snap = audio_files[s]]]
    /\ UNCHANGED <<extract, analysis, redact, hkVars, ai, status, audio_files, summaries, analytics, crm, syncLog, dbFaults,
                   startResp, en, run, uploadEvents, socket>>

\* save_uploaded_audio (may raise), then the append to the snapshot, the
\* $set of the whole metadata (update_call_session swallows a failed write
\* and the handler ignores its result) and the "uploaded" broadcast, whose
\* progress argument is len(audio_files).
upload_audio_store(u) ==
    /\ up[u].pc = "saving"
    /\ LET s == up[u].sid
           files == Append(up[u].snap, u)
       IN \E stored \in BOOLEAN :
            IF ~stored
            THEN /\ up' = [up EXCEPT ![u] = [@ EXCEPT !.pc = "done",
                             !.cause = "save_failed",
                             !.resp = HandlerResponse(HTTP_SERVER_ERROR)]]
                 /\ UNCHANGED <<audio_files, dbFaults, uploadEvents, socket>>
            ELSE \E ok \in WriteOutcomes :
                   /\ dbFaults' = Fault(ok)
                   /\ audio_files' = [audio_files EXCEPT ![s] = IF ok THEN files ELSE @]
                   /\ uploadEvents' = uploadEvents \cup {Event("uploaded", 0, 0, Len(files) * Thousandths)}
                   /\ socket' = broadcast_audio_processing_status(s,
                                    Event("uploaded", 0, 0, Len(files) * Thousandths))
                   /\ up' = [up EXCEPT ![u] = [@ EXCEPT !.pc = "done",
                               !.snap = files, !.resp = HandlerResponse(HTTP_OK)]]
    /\ UNCHANGED <<extract, analysis, redact, hkVars, ai, status, summaries, analytics, crm, syncLog, startResp, en, run>>

----------------------------------------------------------------------------
(* end_call *)

\* end_call with the test on services["ai"] left out
ShouldProcessWithoutAi(files, aiPresent) == files # <<>>

\* end_call with the test on audio_files left out
ShouldProcessWithoutFiles(files, aiPresent) == aiPresent

\* if audio_files and services["ai"]
ShouldProcess(files, aiPresent) == files # <<>> /\ aiPresent

\* get_call_session: 404 for an unknown session, else the handler keeps the
\* session object it read, metadata["audio_files"] included.
end_call_begin(e, s) ==
    /\ en[e].pc = "idle"
    /\ Issued < MaxRequests
    /\ \A f \in EndIds : f < e => en[f].pc # "idle"
    /\ IF status[s] = NoSession
       THEN en' = [en EXCEPT ![e] = [@ EXCEPT !.pc = "done", !.sid = s,
                       !.cause = "not_found",
                       !.resp = HandlerResponse(HTTP_NOT_FOUND)]]
       ELSE en' = [en EXCEPT ![e] = [@ EXCEPT !.pc = "read", !.sid = s,
                       !.snap = audio_files[s]]]
    /\ UNCHANGED <<extract, analysis, redact, hkVars, ai, status, audio_files, summaries, analytics, crm, syncLog, dbFaults,
                   startResp, up, run, uploadEvents, socket>>

\* end_call_session: $set status "ended" and end_time, whatever the current
\* status; a failed write returns False and the handler raises.
end_call_session(e) ==
    /\ en[e].pc = "read"
    /\ LET s == en[e].sid
       IN \E ok \in WriteOutcomes :
            /\ dbFaults' = Fault(ok)
            /\ status' = [status EXCEPT ![s] = IF ok THEN "ended" ELSE @]
            /\ en' = [en EXCEPT ![e] =
                  IF ok THEN [@ EXCEPT !.pc = "ended"]
                  ELSE [@ EXCEPT !.pc = "done", !.cause = "end_failed",
                                 !.resp = HandlerResponse(HTTP_SERVER_ERROR)]]
    /\ UNCHANGED <<extract, analysis, redact, hkVars, ai, audio_files, summaries, analytics, crm, syncLog, startResp, up, run,
                   uploadEvents, socket>>

\* The rest of end_call: with artifacts in the session object read at the
\* start and an AI service, $set status "processing" and add the background
\* task; otherwise only the response.
end_call_decide(e) ==
    /\ en[e].pc = "ended"
    /\ LET s == en[e].sid
       IN IF ShouldProcess(en[e].snap, ai)
          THEN \E ok \in WriteOutcomes :
                 /\ dbFaults' = Fault(ok)
                 /\ status' = [status EXCEPT ![s] = IF ok THEN "processing" ELSE @]
                 /\ run' = [run EXCEPT ![e] = [@ EXCEPT !.pc = "scheduled",
                               !.sid = s, !.files = en[e].snap]]
          ELSE UNCHANGED <<status, dbFaults, run>>
    /\ en' = [en EXCEPT ![e] = [@ EXCEPT !.pc = "done",
                                         !.resp = HandlerResponse(HTTP_OK)]]
    /\ UNCHANGED <<extract, analysis, redact, hkVars, ai, audio_files, summaries, analytics, crm, syncLog, startResp, up,
                   uploadEvents, socket>>

----------------------------------------------------------------------------
(* process_call_audio_after_end *)

\* the per-file progress counted from the files left instead of the files done
FileProgressRemaining(i, n) == ProgressProcessing + ((n - i) * ProgressFilesSpan) \div n

\* progress = 0.1 + (i / len(audio_files)) * 0.6, i counted from 0
FileProgress(i, n) == ProgressProcessing + (i * ProgressFilesSpan) \div n

\* AIService.generate_summary_from_text returns what json.loads made of the
\* model's content, or the fixed fallback dict when the request fails, the
\* content is empty or the content does not parse:
\*   "text"     a JSON object whose "summary" is a string
\*   "bullets"  a JSON object whose "summary" is a list (what the prompt asks for)
\*   "fallback" the fallback dict, whose "summary" is a list of three strings
\*   "non_dict" valid JSON that is not an object
SummaryData == {"text", "bullets", "fallback", "non_dict"}

\* a CallSummary whose summary_text accepts whatever the extractor returned
CallSummaryAcceptsAny(data) == TRUE

\* CallSummary(summary_text=summary_data.get("summary", ""), ...):
\* summary_text is declared str, so only a string summary validates, and
\* .get exists only on a dict.
CallSummaryValid(data) == data = "text"

\* the text of an artifact put in front of the transcript instead of behind it
PrependTranscript(complete_transcript, a) == <<a>> \o complete_transcript

\* complete_transcript += f" {file_transcript}": the transcript is kept as the
\* sequence of the artifacts whose text it holds, in the order it holds them
AppendTranscript(complete_transcript, a) == Append(complete_transcript, a)

\* update_call_session(session_id, {"status": "ended"}): the update_data a
\* run writes to the session document, as <<key, value>> pairs
EndedUpdate == << <<"status", "ended">> >>

Emit(r, ev) == Append(run[r].events, ev)

\* The artifact the loop is at, enumerate index i counted from 0.
CurrentFile(r) == run[r].files[run[r].i + 1]

NextFilePc(r) == IF run[r].i + 1 = Len(run[r].files) THEN "summary" ELSE "loop"

\* The first broadcast of the run.
run_start(r) ==
    /\ run[r].pc = "scheduled"
    /\ run' = [run EXCEPT ![r] = [@ EXCEPT
                 !.events = Emit(r, Event("processing", 0, 0, ProgressProcessing)),
                 !.pc = IF Len(run[r].files) = 0 THEN "summary" ELSE "loop"]]
    /\ socket' = broadcast_audio_processing_status(run[r].sid,
                     run'[r].events[Len(run'[r].events)])
    /\ UNCHANGED <<extract, analysis, redact, hkVars, ai, status, audio_files, summaries, analytics, crm, syncLog, dbFaults,
                   startResp, up, en, uploadEvents>>

\* One loop iteration up to the await of the transcription: the progress
\* broadcast, convert_to_wav (raises on failure), enhance_audio_quality
\* (returns the converted path when it fails), analyze_audio_properties
\* (never raises: an error dict, whose duration counts 0). Without an AI
\* service the iteration goes straight to cleanup_temp_files.
run_convert(r) ==
    /\ run[r].pc = "loop"
    /\ LET a == CurrentFile(r)
           n == Len(run[r].files)
           ev == Event("processing_file", run[r].i + 1, n, FileProgress(run[r].i, n))
       IN \E converted \in BOOLEAN, enhanced \in BOOLEAN :
            run' = [run EXCEPT ![r] =
              IF ~converted
              THEN [@ EXCEPT !.events = Emit(r, ev), !.pc = "except",
                             !.failed = @ \cup {a}]
              ELSE IF ai
              THEN [@ EXCEPT !.events = Emit(r, ev), !.pc = "transcribe",
                             !.temp = @ \cup {<<a, "wav">>} \cup
                                 (IF enhanced THEN {<<a, "enhanced">>} ELSE {})]
              ELSE [@ EXCEPT !.events = Emit(r, ev), !.pc = NextFilePc(r),
                             !.i = @ + 1]]
    /\ socket' = broadcast_audio_processing_status(run[r].sid,
                     run'[r].events[Len(run'[r].events)])
    /\ UNCHANGED <<extract, analysis, redact, hkVars, ai, status, audio_files, summaries, analytics, crm, syncLog, dbFaults,
                   startResp, up, en, uploadEvents>>

\* transcribe_audio_with_timestamps re-raises a provider error; otherwise the
\* joined segment text is appended when it is not empty, and
\* cleanup_temp_files is called on the two paths of this artifact.
run_transcribe(r) ==
    /\ run[r].pc = "transcribe"
    /\ LET a == CurrentFile(r)
       IN \E outcome \in {"text", "empty", "raise"} :
            run' = [run EXCEPT ![r] =
              IF outcome = "raise"
              THEN [@ EXCEPT !.pc = "except", !.failed = @ \cup {a}]
              ELSE [@ EXCEPT !.transcript = IF outcome = "text"
                                            THEN AppendTranscript(@, a) ELSE @,
                             !.texted = IF outcome = "text" THEN @ \cup {a} ELSE @,
                             !.temp = {f \in @ : f[1] # a},
                             !.i = @ + 1,
                             !.pc = NextFilePc(r)]]
    /\ UNCHANGED <<extract, analysis, redact, hkVars, ai, status, audio_files, summaries, analytics, crm, syncLog, dbFaults,
                   startResp, up, en, uploadEvents, socket>>

\* The generating_summary broadcast; with an AI service and a non-empty
\* transcript, generate_summary_from_text (never raises) and the
\* construction of the CallSummary, which raises when it does not validate.
run_summary(r) ==
    /\ run[r].pc = "summary"
    /\ LET ev == Event("generating_summary", 0, 0, ProgressSummary)
       IN IF ai /\ run[r].transcript # <<>>
          THEN \E data \in SummaryData :
                 run' = [run EXCEPT ![r] = [@ EXCEPT !.events = Emit(r, ev),
                           !.summary_data = data,
                           !.pc = IF CallSummaryValid(data) THEN "save_summary"
                                  ELSE "except"]]
          ELSE run' = [run EXCEPT ![r] = [@ EXCEPT !.events = Emit(r, ev),
                                                   !.pc = "finish"]]
    /\ socket' = broadcast_audio_processing_status(run[r].sid,
                     run'[r].events[Len(run'[r].events)])
    /\ UNCHANGED <<extract, analysis, redact, hkVars, ai, status, audio_files, summaries, analytics, crm, syncLog, dbFaults,
                   startResp, up, en, uploadEvents>>

\* a run that goes from the summary straight to the sync
AfterSummarySkipAnalytics(ok) == IF ok THEN "sync" ELSE "except"

\* what follows create_call_summary: the summary broadcast and
\* create_call_analytics, or the except handler when the insert raised
AfterSummary(ok) == IF ok THEN "save_analytics" ELSE "except"

\* create_call_summary inserts one is_final document and re-raises a failed
\* insert; the summary_update broadcast follows.
create_call_summary(r) ==
    /\ run[r].pc = "save_summary"
    /\ LET s == run[r].sid
       IN \E ok \in WriteOutcomes :
            /\ dbFaults' = Fault(ok)
            /\ summaries' = [summaries EXCEPT ![s] = IF ok THEN @ + 1 ELSE @]
            /\ run' = [run EXCEPT ![r] =
                  IF ok THEN [@ EXCEPT !.saved = TRUE, !.summary_broadcast = TRUE,
                                       !.pc = AfterSummary(ok)]
                  ELSE [@ EXCEPT !.pc = AfterSummary(ok)]]
    /\ UNCHANGED <<extract, analysis, redact, hkVars, ai, status, audio_files, analytics, crm, syncLog, startResp, up, en,
                   uploadEvents, socket>>

\* create_call_analytics inserts under the unique index on call_session_id
\* and re-raises a failed insert, a duplicate key included.
create_call_analytics(r) ==
    /\ run[r].pc = "save_analytics"
    /\ LET s == run[r].sid
       IN IF analytics[s] > 0
          THEN /\ run' = [run EXCEPT ![r] = [@ EXCEPT !.pc = "except"]]
               /\ UNCHANGED <<analytics, dbFaults>>
          ELSE \E ok \in WriteOutcomes :
                 /\ dbFaults' = Fault(ok)
                 /\ analytics' = [analytics EXCEPT ![s] = IF ok THEN @ + 1 ELSE @]
                 /\ run' = [run EXCEPT ![r] =
                       [@ EXCEPT !.pc = IF ok THEN "sync" ELSE "except"]]
    /\ UNCHANGED <<extract, analysis, redact, hkVars, ai, status, audio_files, summaries, crm, syncLog, startResp, up, en,
                   uploadEvents, socket>>

\* sync_call_summary: on success synced_records[session] is replaced by an
\* entry with status SUCCESS and a fresh crm_record_id (numbered here by the
\* attempt that made it) and no retry_count; on failure nothing is recorded.
SyncRecorded(log, synced) ==
    [log EXCEPT !.attempts = @ + 1,
                !.last = IF synced THEN "success" ELSE "failed",
                !.crm_record_id = IF synced THEN log.attempts + 1 ELSE @,
                !.retry_count = IF synced THEN 0 ELSE @]

\* retry_sync: on success the entry is replaced by one with status SUCCESS, a
\* fresh crm_record_id and retry_count 1; on failure nothing is recorded.
RetryRecorded(log, synced) ==
    [log EXCEPT !.attempts = @ + 1,
                !.last = IF synced THEN "success" ELSE "failed",
                !.crm_record_id = IF synced THEN log.attempts + 1 ELSE @,
                !.retry_count = IF synced THEN 1 ELSE @]

\* The syncing_crm broadcast and sync_call_summary, which records the session
\* in synced_records on success and returns a FAILED result otherwise.
run_sync(r) ==
    /\ run[r].pc = "sync"
    /\ LET s == run[r].sid
       IN \E synced \in BOOLEAN :
            /\ crm' = [crm EXCEPT ![s] = IF synced THEN "success" ELSE @]
            /\ syncLog' = [syncLog EXCEPT ![s] = SyncRecorded(@, synced)]
            /\ run' = [run EXCEPT ![r] = [@ EXCEPT
                  !.events = Emit(r, Event("syncing_crm", 0, 0, ProgressSyncing)),
                  !.sync = IF synced THEN "success" ELSE "failed",
                  !.pc = "finish"]]
    /\ socket' = broadcast_audio_processing_status(run[r].sid,
                     run'[r].events[Len(run'[r].events)])
    /\ UNCHANGED <<extract, analysis, redact, hkVars, ai, status, audio_files, summaries, analytics, dbFaults,
                   startResp, up, en, uploadEvents>>

\* update_call_session(status "ended"), whose failure is swallowed and whose
\* result is ignored, then the completed broadcast.
run_finish(r) ==
    /\ run[r].pc = "finish"
    /\ LET s == run[r].sid
       IN \E ok \in WriteOutcomes :
            /\ dbFaults' = Fault(ok)
            /\ status' = [status EXCEPT ![s] = IF ok THEN "ended" ELSE @]
            /\ run' = [run EXCEPT ![r] = [@ EXCEPT
                  !.events = Emit(r, Event("completed", 0, 0, ProgressCompleted)),
                  !.update_data = EndedUpdate,
                  !.pc = "done"]]
    /\ socket' = broadcast_audio_processing_status(run[r].sid,
                     run'[r].events[Len(run'[r].events)])
    /\ UNCHANGED <<extract, analysis, redact, hkVars, ai, audio_files, summaries, analytics, crm, syncLog, startResp, up, en,
                   uploadEvents>>

\* except Exception: the error broadcast, then update_call_session(status
\* "ended") with the same swallowed failure.
run_except(r) ==
    /\ run[r].pc = "except"
    /\ LET s == run[r].sid
       IN \E ok \in WriteOutcomes :
            /\ dbFaults' = Fault(ok)
            /\ status' = [status EXCEPT ![s] = IF ok THEN "ended" ELSE @]
            /\ run' = [run EXCEPT ![r] = [@ EXCEPT
                  !.events = Emit(r, Event("error", 0, 0, ProgressError)),
                  !.update_data = EndedUpdate,
                  !.pc = "done"]]
    /\ socket' = broadcast_audio_processing_status(run[r].sid,
                     run'[r].events[Len(run'[r].events)])
    /\ UNCHANGED <<extract, analysis, redact, hkVars, ai, audio_files, summaries, analytics, crm, syncLog, startResp, up, en,
                   uploadEvents>>

RunStep(r) ==
    \/ run_start(r)
    \/ run_convert(r)
    \/ run_transcribe(r)
    \/ run_summary(r)
    \/ create_call_summary(r)
    \/ create_call_analytics(r)
    \/ run_sync(r)
    \/ run_finish(r)
    \/ run_except(r)

----------------------------------------------------------------------------
(* hackathon_endpoints.py: upload_call_audio and process_call_async *)

\* allowed_formats
AllowedFormats == {".mp3", ".wav", ".webm", ".m4a", ".opus"}

\* Path(audio_file.filename).suffix of the file names a client sends
Suffixes == {".mp3", ".WAV", ".txt", ""}

\* str.lower() on those suffixes
Lower(suffix) == IF suffix = ".WAV" THEN ".wav" ELSE suffix

\* The whole handler sits in try / except Exception -> HTTPException(500):
\* the 400 raised for an unsupported suffix leaves as a 500, as does a failed
\* create_call_record. An accepted upload inserts the record in status
\* processing and creates the process_call_async task.
upload_call_audio(c, suffix) ==
    /\ hkUpload[c].pc = "idle"
    /\ \A d \in CallIds : d < c => hkUpload[d].pc # "idle"
    /\ IF Lower(suffix) \notin AllowedFormats
       THEN /\ hkUpload' = [hkUpload EXCEPT ![c] = [pc |-> "done", suffix |-> suffix,
                               cause |-> "unsupported",
                               resp |-> HandlerResponse(HTTP_BAD_REQUEST)]]
            /\ UNCHANGED <<hkCalls, hkTask, dbFaults>>
       ELSE \E ok \in WriteOutcomes :
              /\ dbFaults' = Fault(ok)
              /\ IF ok
                 THEN /\ hkCalls' = [hkCalls EXCEPT ![c] = [@ EXCEPT !.status = "processing"]]
                      /\ hkTask' = [hkTask EXCEPT ![c] = [@ EXCEPT !.pc = "start"]]
                      /\ hkUpload' = [hkUpload EXCEPT ![c] = [pc |-> "done",
                                         suffix |-> suffix, cause |-> "none",
                                         resp |-> HandlerResponse(HTTP_OK)]]
                 ELSE /\ hkUpload' = [hkUpload EXCEPT ![c] = [pc |-> "done",
                                         suffix |-> suffix, cause |-> "create_failed",
                                         resp |-> HandlerResponse(HTTP_SERVER_ERROR)]]
                      /\ UNCHANGED <<hkCalls, hkTask>>
    /\ UNCHANGED <<extract, analysis, redact, sessionVars, hkQuery>>

\* process_audio_file never raises. When convert_to_wav raises it returns
\* status "error" with enhanced_path set to the original upload; when
\* enhance_audio fails it copies the converted file to the enhanced path and
\* the result is a success. The path it returns as enhanced_path:
ProcessedPath(converted, enhanced) ==
    IF ~converted THEN "original"
    ELSE IF enhanced THEN "enhanced" ELSE "converted"

\* process_audio_file, then transcribe_audio on whichever path came back;
\* transcribe_audio re-raises a provider error.
hk_transcribe(c) ==
    /\ hkTask[c].pc = "start"
    /\ \E converted \in BOOLEAN, enhanced \in BOOLEAN,
          outcome \in {"text", "empty", "raise"} :
         hkTask' = [hkTask EXCEPT ![c] =
            IF outcome = "raise"
            THEN [@ EXCEPT !.pc = "except",
                           !.path = ProcessedPath(converted, enhanced)]
            ELSE [@ EXCEPT !.pc = "summarize", !.transcript = outcome,
                           !.path = ProcessedPath(converted, enhanced)]]
    /\ UNCHANGED <<extract, analysis, redact, sessionVars, dbFaults, hkUpload, hkCalls, hkQuery>>

\* generate_summary_from_text, called whatever the transcript, then the
\* insights.get(...) calls that build the update, which need a dict.
hk_summarize(c) ==
    /\ hkTask[c].pc = "summarize"
    /\ \E data \in SummaryData :
         hkTask' = [hkTask EXCEPT ![c] = [@ EXCEPT !.data = data,
                       !.pc = IF data = "non_dict" THEN "except" ELSE "update"]]
    /\ UNCHANGED <<extract, analysis, redact, sessionVars, dbFaults, hkUpload, hkCalls, hkQuery>>

\* update_call_record with the results and status COMPLETED; a failed write
\* is swallowed (returns False) and the task ends.
hk_update(c) ==
    /\ hkTask[c].pc = "update"
    /\ \E ok \in WriteOutcomes :
         /\ dbFaults' = Fault(ok)
         /\ hkCalls' = [hkCalls EXCEPT ![c] =
               IF ok THEN [status |-> "completed",
                           transcript |-> hkTask[c].transcript, insights |-> TRUE]
               ELSE @]
    /\ hkTask' = [hkTask EXCEPT ![c] = [@ EXCEPT !.pc = "done"]]
    /\ UNCHANGED <<extract, analysis, redact, sessionVars, hkUpload, hkQuery>>

\* except Exception: update_call_record with status FAILED (same swallowed
\* failure), then re-raise into the abandoned task.
hk_except(c) ==
    /\ hkTask[c].pc = "except"
    /\ \E ok \in WriteOutcomes :
         /\ dbFaults' = Fault(ok)
         /\ hkCalls' = [hkCalls EXCEPT ![c] =
               IF ok THEN [@ EXCEPT !.status = "failed"] ELSE @]
    /\ hkTask' = [hkTask EXCEPT ![c] = [@ EXCEPT !.pc = "done"]]
    /\ UNCHANGED <<extract, analysis, redact, sessionVars, hkUpload, hkQuery>>

\* The answer of a GET endpoint: the status code, the detail of the
\* HTTPException or the progress field of the body, and the status of the
\* record it was made from. The three handlers have no try block, so their
\* HTTPExceptions reach the client as raised.
Answer(code, detail, record) == [code |-> code, detail |-> detail, of |-> record.status]

\* "completed" if call_record.status == CallStatus.COMPLETED else "processing"
Progress(record) == IF record.status = "completed" THEN "completed" ELSE "processing"

StatusAnswer(record) ==
    IF record.status = "none" THEN Answer(HTTP_NOT_FOUND, "Call not found", record)
    ELSE Answer(HTTP_OK, Progress(record), record)

\* if not call_record.transcript: an absent and an empty transcript alike
TranscriptAnswer(record) ==
    IF record.status = "none" THEN Answer(HTTP_NOT_FOUND, "Call not found", record)
    ELSE IF record.transcript \in {"none", "empty"}
    THEN Answer(HTTP_ACCEPTED, "Transcript not ready yet", record)
    ELSE Answer(HTTP_OK, "transcript", record)

SummaryAnswer(record) ==
    IF record.status = "none" THEN Answer(HTTP_NOT_FOUND, "Call not found", record)
    ELSE IF record.status = "processing"
    THEN Answer(HTTP_ACCEPTED, "Processing in progress", record)
    ELSE IF record.status = "failed"
    THEN Answer(HTTP_SERVER_ERROR, "Processing failed", record)
    ELSE Answer(HTTP_OK, "summary", record)

\* GET requests answered so far.
RECURSIVE AskedUpTo(_)
AskedUpTo(n) == IF n = 0 THEN 0 ELSE hkQuery[n].asked + AskedUpTo(n - 1)

Asked == AskedUpTo(MaxCalls)

get_call_status(c) ==
    /\ Asked < MaxQueries
    /\ hkQuery' = [hkQuery EXCEPT ![c] = [@ EXCEPT !.asked = @ + 1,
                      !.status = StatusAnswer(hkCalls[c])]]
    /\ UNCHANGED <<extract, analysis, redact, sessionVars, dbFaults, hkUpload, hkCalls, hkTask>>

get_call_transcript(c) ==
    /\ Asked < MaxQueries
    /\ hkQuery' = [hkQuery EXCEPT ![c] = [@ EXCEPT !.asked = @ + 1,
                      !.transcript = TranscriptAnswer(hkCalls[c])]]
    /\ UNCHANGED <<extract, analysis, redact, sessionVars, dbFaults, hkUpload, hkCalls, hkTask>>

get_call_summary(c) ==
    /\ Asked < MaxQueries
    /\ hkQuery' = [hkQuery EXCEPT ![c] = [@ EXCEPT !.asked = @ + 1,
                      !.summary = SummaryAnswer(hkCalls[c])]]
    /\ UNCHANGED <<extract, analysis, redact, sessionVars, dbFaults, hkUpload, hkCalls, hkTask>>

----------------------------------------------------------------------------
(* Insight extraction: AIService.generate_summary_from_text of               *)
(* app/services/ai_service.py, which the pipelines call, and the replacement *)
(* function of ai_service_patch.py, which nothing imports.                   *)

\* max_transcript_length
max_transcript_length == 8000

\* len(transcript_text) of the transcripts handed to the extractor
TranscriptLengths == {1, max_transcript_length, max_transcript_length + 1}

\* the closed sets named in the prompt and checked by the patch
Sentiments == {"positive", "neutral", "negative"}
Categories == {"billing", "technical", "bundles", "complaints", "general_inquiry", "other"}
Priorities == {"high", "medium", "low"}
ResolutionStatuses == {"resolved", "pending", "escalated"}

\* JSON objects the capability may answer with: each key valid, of the wrong
\* type, out of its set, null or absent
Objects ==
    [summary : {List("items"), Str("text"), Missing},
     sentiment : {Str("positive"), Str("angry"), Missing},
     category : {Str("billing"), Str("sales")},
     action_items : {List("items"), Str("call back")},
     customer_requests : {List("items"), Null},
     resolution_status : {Str("resolved"), Str("done")},
     priority : {Str("high"), Str("urgent")},
     tags : {List("items"), Str("tag")},
     follow_up_required : {Bool("true"), Str("yes")}]

\* What chat.completions.create does: raise, answer without choices, answer
\* with empty content, with text that holds no JSON, with JSON that is not an
\* object, or with a JSON object: bare, inside a ``` fence, or after other
\* leading text.
ObjectKinds == {"bare", "fenced", "prefixed"}
Responses ==
    [kind : {"raise", "no_choices", "empty", "unparseable", "non_dict"}, obj : {NoObject}]
      \cup [kind : ObjectKinds, obj : Objects]

\* the fallback dict of AIService.generate_summary_from_text
FallbackRecord ==
    [summary |-> List("fallback"), sentiment |-> Str("neutral"),
     category |-> Str("general_inquiry"), action_items |-> List("fallback"),
     customer_requests |-> List("fallback"), resolution_status |-> Str("resolved"),
     priority |-> Str("medium"), tags |-> List("fallback"),
     follow_up_required |-> Bool("false")]

\* the fallback dict of the patch
PatchFallbackRecord ==
    [summary |-> List("fallback"), sentiment |-> Str("neutral"),
     category |-> Str("other"), action_items |-> List("fallback"),
     customer_requests |-> List("fallback"), resolution_status |-> Str("pending"),
     priority |-> Str("medium"), tags |-> List("fallback"),
     follow_up_required |-> Bool("true")]

\* AIService: the prompt holds sanitize_transcript(transcript_text), the
\* whole text whatever its length, with no marker.
SanitizedPrompt(chars) == [chars |-> chars, marker |-> FALSE]

\* AIService: if response.choices / if content and content.strip() /
\* json.loads(content), returned as parsed; everything else falls through to
\* the fallback dict. json.loads takes the content as it is, so a fence or
\* leading text is a JSONDecodeError.
ParseContent(response) ==
    CASE response.kind = "bare" ->
           [from |-> "parsed", dict |-> TRUE, fields |-> response.obj]
      [] response.kind = "non_dict" ->
           [from |-> "parsed", dict |-> FALSE, fields |-> NoObject]
      [] OTHER -> [from |-> "fallback", dict |-> TRUE, fields |-> FallbackRecord]

\* patch: transcript_text[:max_transcript_length] + "... [truncated]"
PatchTruncate(chars) ==
    IF chars > max_transcript_length
    THEN [chars |-> max_transcript_length, marker |-> TRUE]
    ELSE [chars |-> chars, marker |-> FALSE]

\* patch: a str field wrapped as [str(value)]
WrapStr(v) == List(IF v.type = "null" THEN "None" ELSE v.val)

\* patch: the field by field fixes after json.loads
PatchCoerce(obj) ==
    [summary |-> IF obj.summary.type = "list" THEN obj.summary
                 ELSE WrapStr(GetOr(obj.summary, Str("Unable to generate summary"))),
     resolution_status |-> IF obj.resolution_status.type = "string"
                                /\ obj.resolution_status.val \in ResolutionStatuses
                           THEN obj.resolution_status ELSE Str("pending"),
     sentiment |-> IF obj.sentiment.type = "string" /\ obj.sentiment.val \in Sentiments
                   THEN obj.sentiment ELSE Str("neutral"),
     category |-> IF obj.category.type = "string" /\ obj.category.val \in Categories
                  THEN obj.category ELSE Str("other"),
     priority |-> IF obj.priority.type = "string" /\ obj.priority.val \in Priorities
                  THEN obj.priority ELSE Str("medium"),
     action_items |-> IF obj.action_items.type = "list" THEN obj.action_items
                      ELSE List("empty"),
     customer_requests |-> IF obj.customer_requests.type = "list"
                           THEN obj.customer_requests ELSE List("empty"),
     tags |-> IF obj.tags.type = "list" THEN obj.tags ELSE List("empty"),
     follow_up_required |-> IF obj.follow_up_required.type = "bool"
                            THEN obj.follow_up_required ELSE Bool("false")]

\* patch: content that starts with ``` is cut from the first "{" to the last
\* "}"; other content is parsed as it is. Every exception, the
\* AttributeError of .get on a value that is not a dict included, ends in
\* the fallback dict.
PatchParseContent(response) ==
    IF response.kind \in {"bare", "fenced"}
    THEN [from |-> "parsed", dict |-> TRUE, fields |-> PatchCoerce(response.obj)]
    ELSE [from |-> "fallback", dict |-> TRUE, fields |-> PatchFallbackRecord]

\* process_call_async: the update it builds with insights.get(...)
PersistedInsights(fields) ==
    [summary |-> GetOr(fields.summary, List("empty")),
     sentiment |-> Get(fields.sentiment),
     category |-> Get(fields.category),
     action_items |-> GetOr(fields.action_items, List("empty")),
     customer_requests |-> GetOr(fields.customer_requests, List("empty")),
     resolution_status |-> Get(fields.resolution_status),
     priority |-> Get(fields.priority),
     tags |-> GetOr(fields.tags, List("empty")),
     follow_up_required |-> GetOr(fields.follow_up_required, Bool("false"))]

\* One call of AIService.generate_summary_from_text: one request, whose
\* answer is parsed.
generate_summary_from_text ==
    /\ extract.pc = "idle"
    /\ extract' = [extract EXCEPT !.pc = "done",
                      !.submitted = SanitizedPrompt(extract.chars),
                      !.requests = 1,
                      !.result = ParseContent(extract.response)]
    /\ UNCHANGED <<sessionVars, hkVars, dbFaults, analysis, redact>>

\* The same call through the function of ai_service_patch.py.
patch_generate_summary_from_text ==
    /\ extract.pc = "idle"
    /\ extract' = [extract EXCEPT !.pc = "patched",
                      !.submitted = PatchTruncate(extract.chars),
                      !.requests = 1,
                      !.result = PatchParseContent(extract.response)]
    /\ UNCHANGED <<sessionVars, hkVars, dbFaults, analysis, redact>>

\* A non-empty transcript and an answer of the capability, before the call.
ExtractInit ==
    /\ InitServices
    /\ \E chars \in TranscriptLengths, response \in Responses :
         extract = [IdleExtract EXCEPT !.chars = chars, !.response = response]
    /\ analysis = IdleAnalysis
    /\ redact = IdleRedact

ExtractNext ==
    \/ generate_summary_from_text
    \/ patch_generate_summary_from_text

ExtractSpec == ExtractInit /\ [][ExtractNext]_vars

----------------------------------------------------------------------------
(* audio_processor.py: analyze_audio_properties and _detect_speech_segments. *)
(* Times are counted in samples: a second is sample_rate samples.            *)

sample_rate == 16000
hop_length == 512

\* if end_time - start_time > 0.1
MinSegment == sample_rate \div 10

\* frame-wise RMS energies, as levels
Levels == 0..2

\* len(y) of the clips analysed: whole hops and whole hops plus half a hop
ClipLengths == {k * hop_length + extra : k \in 0..MaxFrames, extra \in {0, hop_length \div 2}}

\* librosa.feature.rms with centred frames yields 1 + len(y) // hop_length frames
FrameCount(y_len) == 1 + y_len \div hop_length

\* librosa.frames_to_time: frame i, counted from 0, is at i * hop_length / sr
FrameTime(i) == i * hop_length

\* the k-th smallest value of rms, k counted from 1
SortedAt(rms, k) ==
    CHOOSE v \in Levels :
      /\ Cardinality({i \in 1..Len(rms) : rms[i] <= v}) >= k
      /\ \A w \in Levels : w < v => Cardinality({i \in 1..Len(rms) : rms[i] <= w}) < k

\* np.percentile(rms, 30), times ten: linear interpolation between the two
\* order statistics around position 0.3 * (n - 1)
PercentileTimesTen(rms) ==
    LET n == Len(rms)
        lo == (3 * (n - 1)) \div 10
        f == (3 * (n - 1)) % 10
        a == SortedAt(rms, lo + 1)
        b == SortedAt(rms, IF lo + 2 <= n THEN lo + 2 ELSE n)
    IN 10 * a + f * (b - a)

\* speech_frames = rms > threshold
SpeechFrames(rms) == [i \in 1..Len(rms) |-> 10 * rms[i] > PercentileTimesTen(rms)]

\* if in_speech: segments.append((start_time, times[-1]))
CloseOpen(segments, start_time, end_time) ==
    Append(segments, <<start_time, end_time>>)

\* The loop over speech_frames from frame i (counted from 1 here, so its time
\* is FrameTime(i - 1)), then the segment still open after the last frame.
RECURSIVE DetectFrom(_, _, _, _, _)
DetectFrom(speech, i, in_speech, start_time, segments) ==
    IF i > Len(speech)
    THEN IF in_speech
         THEN CloseOpen(segments, start_time, FrameTime(Len(speech) - 1))
         ELSE segments
    ELSE IF speech[i] /\ ~in_speech
    THEN DetectFrom(speech, i + 1, TRUE, FrameTime(i - 1), segments)
    ELSE IF ~speech[i] /\ in_speech
    THEN DetectFrom(speech, i + 1, FALSE, start_time,
                    IF FrameTime(i - 1) - start_time > MinSegment
                    THEN Append(segments, <<start_time, FrameTime(i - 1)>>)
                    ELSE segments)
    ELSE DetectFrom(speech, i + 1, in_speech, start_time, segments)

\* _detect_speech_segments: the segments, or [] when anything in it raises
detect_speech_segments(rms, raises) ==
    IF raises THEN <<>>
    ELSE DetectFrom(SpeechFrames(rms), 1, FALSE, 0, <<>>)

RECURSIVE SpeechTime(_)
SpeechTime(segments) ==
    IF segments = <<>> THEN 0
    ELSE (segments[1][2] - segments[1][1]) + SpeechTime(Tail(segments))

\* except Exception: return {"error": str(e)}
ErrorResult == [error |-> TRUE]

\* analyze_audio_properties: librosa.load and the features may raise; the
\* speech segments; then the dict, whose silence_ratio divides by duration
\* and so raises ZeroDivisionError for a clip of no samples. silence_ratio is
\* kept as the fraction num / den.
AnalysisResult(y_len, rms, fault) ==
    IF fault = "load" THEN ErrorResult
    ELSE LET speech_segments == detect_speech_segments(rms, fault = "detect")
             total == SpeechTime(speech_segments)
         IN IF y_len = 0 THEN ErrorResult
            ELSE [duration |-> y_len,
                  sample_rate |-> sample_rate,
                  speech_segments |-> speech_segments,
                  total_speech_time |-> total,
                  silence_ratio |-> [num |-> y_len - total, den |-> y_len]]

analyze_audio_properties ==
    /\ analysis.pc = "idle"
    /\ analysis' = [analysis EXCEPT !.pc = "done",
                       !.result = AnalysisResult(analysis.y_len, analysis.rms,
                                                 analysis.fault)]
    /\ UNCHANGED <<sessionVars, hkVars, dbFaults, extract, redact>>

\* A clip, the energies of its frames (silence for a clip of no samples), and
\* where a library call fails if one does.
AnalyzeInit ==
    /\ InitServices
    /\ extract = IdleExtract
    /\ redact = IdleRedact
    /\ \E y_len \in ClipLengths, fault \in {"none", "load", "detect"} :
         \E rms \in [1..FrameCount(y_len) -> Levels] :
           /\ y_len = 0 => rms = <<0>>
           /\ analysis = [IdleAnalysis EXCEPT !.y_len = y_len, !.rms = rms,
                                           !.fault = fault]

AnalyzeNext == analyze_audio_properties

AnalyzeSpec == AnalyzeInit /\ [][AnalyzeNext]_vars

----------------------------------------------------------------------------
(* Transcript redaction: AIService.sanitize_transcript and                   *)
(* AIService._sanitize_transcript of ai_service.py, and                      *)
(* TranscriptSanitizer.sanitize of transcript_sanitizer.py. A text is the    *)
(* sequence of its characters.                                               *)

Digit == {"0", "1", "2", "3", "4", "5", "6", "7", "8", "9"}
UpperSeq == <<"A", "B", "C", "D", "E", "F", "G", "H", "I", "J", "K", "L", "M",
              "N", "O", "P", "Q", "R", "S", "T", "U", "V", "W", "X", "Y", "Z">>
LowerSeq == <<"a", "b", "c", "d", "e", "f", "g", "h", "i", "j", "k", "l", "m",
              "n", "o", "p", "q", "r", "s", "t", "u", "v", "w", "x", "y", "z">>
UpperCase == {UpperSeq[k] : k \in 1..Len(UpperSeq)}
LowerCase == {LowerSeq[k] : k \in 1..Len(LowerSeq)}
Space == {" "}

\* \w
WordChar == Digit \cup UpperCase \cup LowerCase \cup {"_"}

\* the lower-case form of a character, as re.IGNORECASE compares letters
Fold(c) ==
    IF c \in UpperCase THEN LowerSeq[CHOOSE k \in 1..Len(UpperSeq) : UpperSeq[k] = c] ELSE c

\* the replacement strings
PHONE_NUMBER == <<"[", "P", "H", "O", "N", "E", "_", "N", "U", "M", "B", "E", "R", "]">>
AMOUNT == <<"[", "A", "M", "O", "U", "N", "T", "]">>
CUSTOMER_NAME == <<"[", "C", "U", "S", "T", "O", "M", "E", "R", "_", "N", "A", "M", "E", "]">>
ACCOUNT_NUMBER == <<"[", "A", "C", "C", "O", "U", "N", "T", "_", "N", "U", "M", "B", "E", "R", "]">>

\* (Zig|ZWL|USD|Dollar|Dollars), in the order of the alternation
Currencies == << <<"Z", "i", "g">>, <<"Z", "W", "L">>, <<"U", "S", "D">>,
                 <<"D", "o", "l", "l", "a", "r">>,
                 <<"D", "o", "l", "l", "a", "r", "s">> >>

\* The character at position p, counted from 1; "" outside the text.
At(t, p) == IF p >= 1 /\ p <= Len(t) THEN t[p] ELSE ""

\* \b between positions p - 1 and p
Boundary(t, p) == (At(t, p - 1) \in WordChar) # (At(t, p) \in WordChar)

\* the length of the longest run of characters of a class that starts at p
RECURSIVE RunLength(_, _, _)
RunLength(t, p, class) ==
    IF At(t, p) \in class THEN 1 + RunLength(t, p + 1, class) ELSE 0

\* n characters of a class from p
AllIn(t, p, n, class) == \A k \in 0..(n - 1) : At(t, p + k) \in class

\* a literal word at p, letters compared without case
WordAtFolded(t, p, w) == \A k \in 1..Len(w) : Fold(At(t, p + k - 1)) = Fold(w[k])

\* Each matcher gives the position after the match that the pattern has at
\* p, or 0 when it has none there. A greedy run followed by \b or by a
\* character outside its class can only match at its full length.

\* \b0\d{9}\b
MatchPhone10(t, p) ==
    IF Boundary(t, p) /\ At(t, p) = "0" /\ AllIn(t, p + 1, 9, Digit) /\ Boundary(t, p + 10)
    THEN p + 10 ELSE 0

\* \b\d{3}\s\d{3}\s\d{3}\b
MatchPhone333(t, p) ==
    IF /\ Boundary(t, p)
       /\ AllIn(t, p, 3, Digit) /\ At(t, p + 3) \in Space
       /\ AllIn(t, p + 4, 3, Digit) /\ At(t, p + 7) \in Space
       /\ AllIn(t, p + 8, 3, Digit) /\ Boundary(t, p + 11)
    THEN p + 11 ELSE 0

\* \b\d{4}\s\d{3}\s\d{3}\b
MatchPhone433(t, p) ==
    IF /\ Boundary(t, p)
       /\ AllIn(t, p, 4, Digit) /\ At(t, p + 4) \in Space
       /\ AllIn(t, p + 5, 3, Digit) /\ At(t, p + 8) \in Space
       /\ AllIn(t, p + 9, 3, Digit) /\ Boundary(t, p + 12)
    THEN p + 12 ELSE 0

\* \s*\d+\b at q: the position after it, or 0
NumberEnd(t, q) ==
    LET s == RunLength(t, q, Space)
        n == RunLength(t, q + s, Digit)
    IN IF n >= 1 /\ Boundary(t, q + s + n) THEN q + s + n ELSE 0

\* The first currency of the alternation that is at p and after which the
\* rest of the pattern matches: \b, or \s*\d+\b when a number has to follow.
CurrencyEnd(t, p, number_follows) ==
    LET fits == {k \in 1..Len(Currencies) :
                   /\ WordAtFolded(t, p, Currencies[k])
                   /\ IF number_follows THEN NumberEnd(t, p + Len(Currencies[k])) # 0
                      ELSE Boundary(t, p + Len(Currencies[k]))}
    IN IF fits = {} THEN 0
       ELSE p + Len(Currencies[CHOOSE k \in fits : \A j \in fits : k <= j])

\* \b\d+\s*(Zig|ZWL|USD|Dollar|Dollars)\b with re.IGNORECASE
MatchAmountBefore(t, p) ==
    LET n == RunLength(t, p, Digit)
        s == RunLength(t, p + n, Space)
    IN IF Boundary(t, p) /\ n >= 1 THEN CurrencyEnd(t, p + n + s, FALSE) ELSE 0

\* \b(Zig|ZWL|USD|Dollar|Dollars)\s*\d+\b with re.IGNORECASE
MatchAmountAfter(t, p) ==
    LET c == CurrencyEnd(t, p, TRUE)
    IN IF Boundary(t, p) /\ c # 0 THEN NumberEnd(t, c) ELSE 0

\* \$\d+
MatchDollar(t, p) ==
    LET n == RunLength(t, p + 1, Digit)
    IN IF At(t, p) = "$" /\ n >= 1 THEN p + 1 + n ELSE 0

\* [A-Z][a-z]+
CapWordEnd(t, p) ==
    LET n == RunLength(t, p + 1, LowerCase)
    IN IF At(t, p) \in UpperCase /\ n >= 1 THEN p + 1 + n ELSE 0

\* \b[A-Z][a-z]+ [A-Z][a-z]+\b
MatchName2(t, p) ==
    LET a == CapWordEnd(t, p)
        b == CapWordEnd(t, a + 1)
    IN IF /\ Boundary(t, p) /\ a # 0 /\ At(t, a) = " "
          /\ b # 0 /\ Boundary(t, b)
       THEN b ELSE 0

\* \b[A-Z][a-z]+ [A-Z][a-z]+ [A-Z][a-z]+\b
MatchName3(t, p) ==
    LET a == CapWordEnd(t, p)
        b == CapWordEnd(t, a + 1)
        c == CapWordEnd(t, b + 1)
    IN IF /\ Boundary(t, p) /\ a # 0 /\ At(t, a) = " "
          /\ b # 0 /\ At(t, b) = " "
          /\ c # 0 /\ Boundary(t, c)
       THEN c ELSE 0

\* \b\d{8,12}\b
MatchAccount(t, p) ==
    LET n == RunLength(t, p, Digit)
    IN IF Boundary(t, p) /\ n >= 8 /\ n <= 12 /\ Boundary(t, p + n) THEN p + n ELSE 0

\* \b[A-Z]{2}\d{6,10}\b
MatchReference(t, p) ==
    LET n == RunLength(t, p + 2, Digit)
    IN IF /\ Boundary(t, p) /\ AllIn(t, p, 2, UpperCase)
          /\ n >= 6 /\ n <= 10 /\ Boundary(t, p + 2 + n)
       THEN p + 2 + n ELSE 0

MatchEnd(pattern, t, p) ==
    CASE pattern = "phone10" -> MatchPhone10(t, p)
      [] pattern = "phone333" -> MatchPhone333(t, p)
      [] pattern = "phone433" -> MatchPhone433(t, p)
      [] pattern = "amount_before" -> MatchAmountBefore(t, p)
      [] pattern = "amount_after" -> MatchAmountAfter(t, p)
      [] pattern = "dollar" -> MatchDollar(t, p)
      [] pattern = "name2" -> MatchName2(t, p)
      [] pattern = "name3" -> MatchName3(t, p)
      [] pattern = "account" -> MatchAccount(t, p)
      [] pattern = "reference" -> MatchReference(t, p)

\* re.sub(pattern, repl, t): the matches found from left to right, each
\* search starting where the match before it ended, replaced by repl
RECURSIVE SubFrom(_, _, _, _)
SubFrom(pattern, repl, t, p) ==
    IF p > Len(t) THEN <<>>
    ELSE LET q == MatchEnd(pattern, t, p)
         IN IF q # 0 THEN repl \o SubFrom(pattern, repl, t, q)
            ELSE <<t[p]>> \o SubFrom(pattern, repl, t, p + 1)

Sub(pattern, repl, t) == SubFrom(pattern, repl, t, 1)

\* list(re.finditer(pattern, t)): the spans <<start, end>> as Python counts
\* them, start from 0 and end exclusive
RECURSIVE FindFrom(_, _, _)
FindFrom(pattern, t, p) ==
    IF p > Len(t) THEN <<>>
    ELSE LET q == MatchEnd(pattern, t, p)
         IN IF q # 0 THEN << <<p - 1, q - 1>> >> \o FindFrom(pattern, t, q)
            ELSE FindFrom(pattern, t, p + 1)

FindIter(pattern, t) == FindFrom(pattern, t, 1)

Min(a, b) == IF a <= b THEN a ELSE b

\* t[:start] + repl + t[end:], slices clamped to the text as Python clamps them
Splice(t, span, repl) ==
    SubSeq(t, 1, Min(span[1], Len(t))) \o repl \o SubSeq(t, span[2] + 1, Len(t))

\* for match in reversed(matches[1:]): the spans replaced from the last one
\* to the second one
RECURSIVE SpliceReversed(_, _, _)
SpliceReversed(t, matches, k) ==
    IF k < 2 THEN t
    ELSE SpliceReversed(Splice(t, matches[k], CUSTOMER_NAME), matches, k - 1)

\* for match in matches[1:]: the spans replaced from the second one to the
\* last one, each at the offsets it had in the text the matches were found in
RECURSIVE SpliceForward(_, _, _)
SpliceForward(t, matches, k) ==
    IF k > Len(matches) THEN t
    ELSE SpliceForward(Splice(t, matches[k], CUSTOMER_NAME), matches, k + 1)

\* matches = list(re.finditer(pattern, t)); if len(matches) > 1: the loop over
\* matches[1:], reversed in ai_service.py and forward in transcript_sanitizer.py
MaskNames(pattern, t, reversed) ==
    LET matches == FindIter(pattern, t)
    IN IF Len(matches) <= 1 THEN t
       ELSE IF reversed THEN SpliceReversed(t, matches, Len(matches))
       ELSE SpliceForward(t, matches, 2)

\* the phone patterns without the one for numbers spaced 4-3-3
phone_patterns_unspaced == <<"phone10", "phone333">>

\* The pattern lists, in the order in which the code applies them.
phone_patterns == <<"phone10", "phone333", "phone433">>
amount_patterns == <<"amount_before", "amount_after", "dollar">>
name_patterns == <<"name3", "name2">>
account_patterns == <<"account", "reference">>

\* for pattern in patterns: text = re.sub(pattern, repl, text)
SubSteps(patterns, repl) ==
    [k \in 1..Len(patterns) |-> [kind |-> "sub", pattern |-> patterns[k], repl |-> repl]]

\* for pattern in name_patterns: the name loop, forward
NameSteps(patterns) ==
    [k \in 1..Len(patterns) |->
       [kind |-> "names_forward", pattern |-> patterns[k], repl |-> CUSTOMER_NAME]]

PhoneSteps == SubSteps(phone_patterns, PHONE_NUMBER)
AmountSteps == SubSteps(amount_patterns, AMOUNT)

\* The steps of each redactor.
\* AIService.sanitize_transcript: phones, amounts, three-part names reversed;
\* AIService._sanitize_transcript: the same, then account numbers;
\* TranscriptSanitizer.sanitize: phones, amounts, three-part then two-part
\* names forward, account numbers then reference codes.
RedactorSteps ==
    [sanitize_transcript |->
        PhoneSteps \o AmountSteps
          \o << [kind |-> "names_reversed", pattern |-> "name3", repl |-> CUSTOMER_NAME] >>,
     _sanitize_transcript |->
        PhoneSteps \o AmountSteps
          \o << [kind |-> "names_reversed", pattern |-> "name3", repl |-> CUSTOMER_NAME] >>
          \o SubSteps(<<"account">>, ACCOUNT_NUMBER),
     sanitize |->
        PhoneSteps \o AmountSteps \o NameSteps(name_patterns)
          \o SubSteps(account_patterns, ACCOUNT_NUMBER)]

ApplyStep(step, t) ==
    IF step.kind = "sub" THEN Sub(step.pattern, step.repl, t)
    ELSE MaskNames(step.pattern, t, step.kind = "names_reversed")

\* the steps from the k-th on, each on the text the one before it left
RECURSIVE ApplySteps(_, _, _)
ApplySteps(steps, t, k) ==
    IF k > Len(steps) THEN t
    ELSE ApplySteps(steps, ApplyStep(steps[k], t), k + 1)

\* The words the texts are made of.
Words == [call |-> <<"c", "a", "l", "l">>,
          about |-> <<"a", "b", "o", "u", "t">>,
          Grace |-> <<"G", "r", "a", "c", "e">>,
          Ann |-> <<"A", "n", "n">>,
          Zig |-> <<"Z", "i", "g">>,
          n500 |-> <<"5", "0", "0">>,
          n0788 |-> <<"0", "7", "8", "8">>,
          n405 |-> <<"4", "0", "5">>,
          n008 |-> <<"0", "0", "8">>,
          n0788405008 |-> <<"0", "7", "8", "8", "4", "0", "5", "0", "0", "8">>]

\* the words joined by single spaces
RECURSIVE Render(_)
Render(tokens) ==
    IF tokens = <<>> THEN <<>>
    ELSE IF Len(tokens) = 1 THEN Words[tokens[1]]
    ELSE Words[tokens[1]] \o <<" ">> \o Render(Tail(tokens))

\* "call 0788 405 008 about 500 Zig"
ExampleTokens == <<"call", "n0788", "n405", "n008", "about", "n500", "Zig">>

\* Texts of up to MaxTokens words of any kind, texts of up to MaxNameTokens
\* capitalised and lower-case words, and the example.
TokenTexts ==
    UNION {[1..n -> {"call", "Grace", "Zig", "n500", "n0788", "n405", "n008",
                     "n0788405008"}] : n \in 1..MaxTokens}
    \cup UNION {[1..n -> {"Ann", "call"}] : n \in 1..MaxNameTokens}
    \cup {ExampleTokens}

\* One more application of a redactor: to the text, then to its own output.
Applied(redactor) ==
    LET input == IF redact.applied = 0 THEN redact.text ELSE redact.out
        result == ApplySteps(RedactorSteps[redactor], input, 1)
    IN [redact EXCEPT
          !.redactor = redactor,
          !.applied = @ + 1,
          !.out = IF redact.applied = 0 THEN result ELSE @,
          !.again = IF redact.applied = 1 THEN result ELSE @]

sanitize_transcript ==
    /\ redact.applied < 2
    /\ redact.redactor \in {"none", "sanitize_transcript"}
    /\ redact' = Applied("sanitize_transcript")
    /\ UNCHANGED <<sessionVars, hkVars, dbFaults, extract, analysis>>

_sanitize_transcript ==
    /\ redact.applied < 2
    /\ redact.redactor \in {"none", "_sanitize_transcript"}
    /\ redact' = Applied("_sanitize_transcript")
    /\ UNCHANGED <<sessionVars, hkVars, dbFaults, extract, analysis>>

sanitize ==
    /\ redact.applied < 2
    /\ redact.redactor \in {"none", "sanitize"}
    /\ redact' = Applied("sanitize")
    /\ UNCHANGED <<sessionVars, hkVars, dbFaults, extract, analysis>>

\* A transcript, before any redaction; the redactors are methods of the AI
\* service, which then exists.
RedactInit ==
    /\ InitServices
    /\ ai
    /\ extract = IdleExtract
    /\ analysis = IdleAnalysis
    /\ \E tokens \in TokenTexts :
         redact = [IdleRedact EXCEPT !.tokens = tokens, !.text = Render(tokens)]

RedactNext ==
    \/ sanitize_transcript
    \/ _sanitize_transcript
    \/ sanitize

RedactSpec == RedactInit /\ [][RedactNext]_vars

----------------------------------------------------------------------------
(* crm_mock.py: MockCRMIntegration on its own *)

\* One call of sync_call_summary for a session, whatever made it.
sync_call_summary(s) ==
    /\ syncLog[s].attempts < MaxSyncAttempts
    /\ \E synced \in BOOLEAN :
         /\ crm' = [crm EXCEPT ![s] = IF synced THEN "success" ELSE @]
         /\ syncLog' = [syncLog EXCEPT ![s] = SyncRecorded(@, synced)]
    /\ UNCHANGED <<extract, analysis, redact, hkVars, ai, status, audio_files, summaries, analytics,
                   dbFaults, startResp, up, en, run, uploadEvents, socket>>

retry_sync(s) ==
    /\ syncLog[s].attempts < MaxSyncAttempts
    /\ \E synced \in BOOLEAN :
         /\ crm' = [crm EXCEPT ![s] = IF synced THEN "success" ELSE @]
         /\ syncLog' = [syncLog EXCEPT ![s] = RetryRecorded(@, synced)]
    /\ UNCHANGED <<extract, analysis, redact, hkVars, ai, status, audio_files, summaries, analytics,
                   dbFaults, startResp, up, en, run, uploadEvents, socket>>

\* get_sync_status: the entry's status and crm_record_id when the session is
\* in synced_records, "not_synced" otherwise.
get_sync_status(s) ==
    /\ syncLog' = [syncLog EXCEPT ![s] = [@ EXCEPT !.report =
           IF crm[s] = "not_synced"
           THEN [status |-> "not_synced", crm_record_id |-> 0]
           ELSE [status |-> crm[s], crm_record_id |-> syncLog[s].crm_record_id]]]
    /\ UNCHANGED <<extract, analysis, redact, hkVars, ai, status, audio_files, summaries, analytics, crm,
                   dbFaults, startResp, up, en, run, uploadEvents, socket>>

CrmNext ==
    \/ \E s \in Sessions : sync_call_summary(s)
    \/ \E s \in Sessions : retry_sync(s)
    \/ \E s \in Sessions : get_sync_status(s)

CrmSpec == Init /\ [][CrmNext]_vars

----------------------------------------------------------------------------
Next ==
    \/ \E s \in Sessions : start_call(s)
    \/ \E u \in UploadIds, s \in Sessions : upload_audio_begin(u, s)
    \/ \E u \in UploadIds : upload_audio_store(u)
    \/ \E e \in EndIds, s \in Sessions : end_call_begin(e, s)
    \/ \E e \in EndIds : end_call_session(e)
    \/ \E e \in EndIds : end_call_decide(e)
    \/ \E r \in EndIds : run_start(r)
    \/ \E r \in EndIds : run_convert(r)
    \/ \E r \in EndIds : run_transcribe(r)
    \/ \E r \in EndIds : run_summary(r)
    \/ \E r \in EndIds : create_call_summary(r)
    \/ \E r \in EndIds : create_call_analytics(r)
    \/ \E r \in EndIds : run_sync(r)
    \/ \E r \in EndIds : run_finish(r)
    \/ \E r \in EndIds : run_except(r)

Spec == Init /\ [][Next]_vars

\* The event loop runs every scheduled coroutine: a run that can take a step
\* eventually takes it.
FairSpec == Spec /\ \A r \in EndIds : WF_vars(RunStep(r))

\* The session API with one end_call request and clients joining and leaving
\* the session rooms.
SockEndIds == {1}

SockNext ==
    \/ \E s \in Sessions : start_call(s)
    \/ \E u \in UploadIds, s \in Sessions : upload_audio_begin(u, s)
    \/ \E u \in UploadIds : upload_audio_store(u)
    \/ \E e \in SockEndIds, s \in Sessions : end_call_begin(e, s)
    \/ \E e \in SockEndIds : end_call_session(e)
    \/ \E e \in SockEndIds : end_call_decide(e)
    \/ \E r \in SockEndIds : run_start(r)
    \/ \E r \in SockEndIds : run_convert(r)
    \/ \E r \in SockEndIds : run_transcribe(r)
    \/ \E r \in SockEndIds : run_summary(r)
    \/ \E r \in SockEndIds : create_call_summary(r)
    \/ \E r \in SockEndIds : create_call_analytics(r)
    \/ \E r \in SockEndIds : run_sync(r)
    \/ \E r \in SockEndIds : run_finish(r)
    \/ \E r \in SockEndIds : run_except(r)
    \/ \E c \in Clients, s \in Sessions : join_call_session(c, s)
    \/ \E c \in Clients, s \in Sessions : leave_call_session(c, s)

SockSpec == Init /\ [][SockNext]_vars

\* The subscriber registry on its own: clients join and leave the sessions
\* they name, disconnect, and time passes.
RegistryNext ==
    \/ \E c \in Clients, s \in RoomIds : join_call_session(c, s)
    \/ \E c \in Clients, s \in RoomIds : leave_call_session(c, s)
    \/ \E c \in Clients : disconnect(c)
    \/ hour_passes

RegistrySpec == Init /\ [][RegistryNext]_vars

\* The one-shot upload API on its own: it shares no state with the sessions.
HkNext ==
    \/ \E c \in CallIds, suffix \in Suffixes : upload_call_audio(c, suffix)
    \/ \E c \in CallIds : hk_transcribe(c)
    \/ \E c \in CallIds : hk_summarize(c)
    \/ \E c \in CallIds : hk_update(c)
    \/ \E c \in CallIds : hk_except(c)

HkSpec == Init /\ [][HkNext]_vars

\* The one-shot upload API with its three GET endpoints, for one call.
QueryCallIds == {1}

HkQueryNext ==
    \/ \E c \in QueryCallIds, suffix \in Suffixes : upload_call_audio(c, suffix)
    \/ \E c \in QueryCallIds : hk_transcribe(c)
    \/ \E c \in QueryCallIds : hk_summarize(c)
    \/ \E c \in QueryCallIds : hk_update(c)
    \/ \E c \in QueryCallIds : hk_except(c)
    \/ \E c \in QueryCallIds : get_call_status(c)
    \/ \E c \in QueryCallIds : get_call_transcript(c)
    \/ \E c \in QueryCallIds : get_call_summary(c)

HkQuerySpec == Init /\ [][HkQueryNext]_vars

----------------------------------------------------------------------------
(* Properties *)

Rank(st) == CASE st = NoSession -> 0
              [] st = "active" -> 1
              [] st = "processing" -> 2
              [] st = "ended" -> 3

IsPrefix(a, b) == Len(a) <= Len(b) /\ SubSeq(b, 1, Len(a)) = a

Range(f) == {f[j] : j \in DOMAIN f}

LastEvent(r) == run[r].events[Len(run[r].events)]

\* No request of the session is in flight and none of its runs is pending.
Quiescent(s) ==
    /\ \A e \in EndIds : en[e].pc \in {"idle", "done"} /\ run[e].pc \in {"idle", "done"}
    /\ \A u \in UploadIds : up[u].pc \in {"idle", "done"}

\* C1: a session's persisted status only moves forward along
\* none -> active -> processing -> ended; no write sets a status that
\* precedes the current one.
C1_StatusNeverRegresses ==
    [][\A s \in Sessions : Rank(status'[s]) >= Rank(status[s])]_vars

C3_NoSessionLeftProcessing ==
    \A s \in Sessions : Quiescent(s) => status[s] # "processing"

\* C4: a run in which some but not all artifacts failed went through all its
\* artifacts, extracted from the text of the others and ended with the
\* completed stage.
C4_FailedArtifactOnlySkipped ==
    \A r \in EndIds :
      (run[r].pc = "done" /\ run[r].failed # {} /\ run[r].failed # Range(run[r].files))
        => /\ LastEvent(r).stage = "completed"
           /\ run[r].i = Len(run[r].files)

\* C5 as stated: the progress fractions of a run never decrease and its last
\* event is (completed, 1.0) or (error, 0.0).
C5_ProgressNonDecreasing ==
    \A r \in EndIds :
      /\ \A j \in 1..(Len(run[r].events) - 1) :
           run[r].events[j].progress <= run[r].events[j + 1].progress
      /\ run[r].pc = "done" =>
           \/ LastEvent(r).stage = "completed" /\ LastEvent(r).progress = ProgressCompleted
           \/ LastEvent(r).stage = "error" /\ LastEvent(r).progress = ProgressError

\* C5 amended: the progress fractions of a run never decrease up to its last
\* event; the last event of a finished run is (completed, 1.0), or
\* (error, 0.0), which falls below the fractions before it; neither stage
\* occurs earlier in the run.
C5_ProgressNonDecreasingUntilError ==
    \A r \in EndIds :
      /\ \A j \in 1..(Len(run[r].events) - 1) :
           /\ run[r].events[j + 1].stage # "error" =>
                run[r].events[j].progress <= run[r].events[j + 1].progress
           /\ run[r].events[j].stage \notin {"completed", "error"}
      /\ run[r].pc # "done" =>
           \A j \in 1..Len(run[r].events) :
             run[r].events[j].stage \notin {"completed", "error"}
      /\ run[r].pc = "done" =>
           \/ LastEvent(r).stage = "completed" /\ LastEvent(r).progress = ProgressCompleted
           \/ LastEvent(r).stage = "error" /\ LastEvent(r).progress = ProgressError

\* A finished run that went through two artifacts before its error event.
C5_Witness ==
    \E r \in EndIds :
      /\ run[r].pc = "done" /\ LastEvent(r).stage = "error"
      /\ \E j \in 1..Len(run[r].events) :
           run[r].events[j].stage = "processing_file" /\ run[r].events[j].idx = 2

\* C6: when a run has finished, cleanup_temp_files has been called on the
\* converted and enhanced files of every artifact it started.
C6_TempFilesReleased ==
    \A r \in EndIds : run[r].pc = "done" => run[r].temp = {}

\* C7: the artifact list of a session changes only while its status is
\* active, and only by an append.
C7_UploadOnlyWhileActive ==
    [][\A s \in Sessions :
         audio_files'[s] # audio_files[s] =>
           status[s] = "active" /\ IsPrefix(audio_files[s], audio_files'[s])]_vars

\* C8: an upload to a session that is not active is answered 400, and an
\* upload or end request for an unknown session 404.
C8_ClientErrorsReported ==
    /\ \A u \in UploadIds :
         /\ up[u].cause = "not_active" => up[u].resp = HTTP_BAD_REQUEST
         /\ up[u].cause = "not_found" => up[u].resp = HTTP_NOT_FOUND
    /\ \A e \in EndIds : en[e].cause = "not_found" => en[e].resp = HTTP_NOT_FOUND

\* C9: an upload with an unsupported suffix is answered 400, creates no call
\* record and starts no task.
C9_UnsupportedFormatRejected ==
    \A c \in CallIds :
      hkUpload[c].cause = "unsupported" =>
        /\ hkUpload[c].resp = HTTP_BAD_REQUEST
        /\ hkCalls[c].status = "none"
        /\ hkTask[c].pc = "idle"

\* The step in which end_call request e goes from pcFrom to pcTo.
EndStep(e, pcFrom, pcTo) == en[e].pc = pcFrom /\ en'[e].pc = pcTo

\* C10 as stated: end_call on a session with an artifact sets the status to
\* processing (when that write succeeds) and schedules the run; with no
\* artifact it leaves no run behind.
C10_EndStartsRunWheneverArtifacts ==
    [][\A e \in EndIds :
         EndStep(e, "ended", "done") =>
           IF en[e].snap # <<>>
           THEN /\ run'[e].pc = "scheduled"
                /\ status'[en[e].sid] = "processing" \/ dbFaults' > dbFaults
           ELSE run'[e].pc = "idle"]_vars

\* C10 amended: end_call first sets the status to ended; then, when the
\* artifact list it read at its start is not empty and the AI service is
\* present, it sets the status to processing (when that write succeeds) and
\* schedules the run over that list; with the AI service absent or the list
\* empty it schedules no run and leaves the status as it is.
C10_EndStartsRunIfArtifactsAndAi ==
    [][\A e \in EndIds :
         /\ EndStep(e, "read", "ended") => status'[en[e].sid] = "ended"
         /\ EndStep(e, "ended", "done") =>
              IF en[e].snap # <<>> /\ ai
              THEN /\ run'[e].pc = "scheduled" /\ run'[e].files = en[e].snap
                   /\ status'[en[e].sid] = "processing" \/ dbFaults' > dbFaults
              ELSE /\ run'[e].pc = "idle"
                   /\ status'[en[e].sid] = status[en[e].sid]]_vars

\* An end_call that has answered, with the session in processing and its run
\* scheduled.
C10_Witness ==
    \E e \in EndIds :
      /\ en[e].pc = "done" /\ en[e].resp = HTTP_OK /\ en[e].snap # <<>>
      /\ run[e].pc = "scheduled" /\ status[en[e].sid] = "processing"

\* A session whose end_call_session write has succeeded for some end request.
EndedBy(s) ==
    \E e \in EndIds : en[e].sid = s /\ en[e].pc \in {"ended", "done"} /\ en[e].cause = "none"

\* C11: a session ended with no uploaded artifact is in status ended, and no
\* run exists for it: no transcription, no extraction, no sync attempt, no
\* summary and no analytics write.
C11_NoArtifactsNoRun ==
    \A s \in Sessions :
      audio_files[s] = <<>> =>
        /\ \A r \in EndIds : run[r].sid = s => run[r] = IdleRun
        /\ summaries[s] = 0 /\ analytics[s] = 0 /\ crm[s] = "not_synced"
        /\ EndedBy(s) => status[s] = "ended"

\* An end_call answered 200 for a session without artifacts, while the AI
\* service is present.
C11_Witness ==
    \E e \in EndIds :
      /\ ai /\ en[e].pc = "done" /\ en[e].resp = HTTP_OK /\ en[e].snap = <<>>
      /\ audio_files[en[e].sid] = <<>> /\ status[en[e].sid] = "ended"

\* C12: a finished run whose transcript is empty, whether its artifacts
\* failed or yielded no text, made no extraction call and no summary write,
\* and ended with (completed, 1.0) and the session in status ended.
C12_EmptyTranscriptStillCompletes ==
    \A r \in EndIds :
      (run[r].pc = "done" /\ run[r].transcript = <<>>) =>
        /\ run[r].summary_data = "none" /\ ~run[r].saved
        /\ LastEvent(r).stage = "completed"
        /\ LastEvent(r).progress = ProgressCompleted
        /\ Quiescent(run[r].sid) => status[run[r].sid] = "ended"

\* The stage and fraction pairs of the progress contract.
StagePairOk(ev) ==
    \/ /\ ev.stage = "processing_file" /\ ev.idx \in 1..ev.of
       /\ ev.progress >= ProgressProcessing
       /\ ev.progress <= ProgressProcessing + ProgressFilesSpan
       /\ ev.idx = 1 => ev.progress = ProgressProcessing
    \/ ev.stage = "generating_summary" /\ ev.progress = ProgressSummary
    \/ ev.stage = "syncing" /\ ev.progress = ProgressSyncing
    \/ ev.stage = "completed" /\ ev.progress = ProgressCompleted
    \/ ev.stage = "error" /\ ev.progress = ProgressError

\* C13: every audio_processing_status event of a session, from a run or from
\* an upload, carries a fraction in [0,1] and one of the stage and fraction
\* pairs processing_file_i_of_n (0.1 to 0.7), generating_summary 0.8,
\* syncing 0.9, completed 1.0, error 0.0.
C13_StageFractionPairs ==
    /\ \A r \in EndIds : \A j \in 1..Len(run[r].events) :
         /\ run[r].events[j].progress \in 0..Thousandths
         /\ StagePairOk(run[r].events[j])
    /\ \A ev \in uploadEvents :
         ev.progress \in 0..Thousandths /\ StagePairOk(ev)

\* C14: a run goes through its artifacts one at a time in upload order: the
\* next conversion starts with no temporary file of an earlier artifact left,
\* the temporary files are those of the artifact being transcribed, and the
\* transcript is the text of the artifacts gone through so far that yielded
\* text, in upload order.
C14_SequentialInUploadOrder ==
    \A r \in EndIds :
      /\ run[r].i <= Len(run[r].files)
      /\ \A j, k \in 1..Len(run[r].files) : j < k => run[r].files[j] < run[r].files[k]
      /\ run[r].texted \subseteq {run[r].files[j] : j \in 1..run[r].i}
      /\ run[r].transcript =
           SelectSeq(SubSeq(run[r].files, 1, run[r].i), LAMBDA a : a \in run[r].texted)
      /\ run[r].pc \in {"loop", "summary"} => run[r].temp = {}
      /\ run[r].pc = "transcribe" =>
           \A f \in run[r].temp : f[1] = run[r].files[run[r].i + 1]

\* A completed run over two artifacts that both yielded text.
C14_Witness ==
    \E r \in EndIds :
      /\ run[r].pc = "done" /\ LastEvent(r).stage = "completed"
      /\ Len(run[r].files) = 2 /\ run[r].transcript = run[r].files

\* C15: a run whose extraction fell back to the fixed fallback record has
\* persisted a final summary built from it and ended with (completed, 1.0).
C15_FallbackStillCompletes ==
    \A r \in EndIds :
      (run[r].pc = "done" /\ run[r].summary_data = "fallback" /\ dbFaults = 0) =>
        /\ run[r].saved
        /\ LastEvent(r).stage = "completed"
        /\ LastEvent(r).progress = ProgressCompleted

\* C20: the write a failed run makes to the session document differs from
\* the write of a run that completed, so that the document tells them apart.
C20_FailureRecorded ==
    \A r, q \in EndIds :
      (/\ run[r].pc = "done" /\ LastEvent(r).stage = "error"
       /\ run[q].pc = "done" /\ LastEvent(q).stage = "completed")
        => run[r].update_data # run[q].update_data

\* An insight record with its enumeration fields inside their closed sets and
\* its list fields lists.
WellFormed(fields) ==
    /\ fields.sentiment.type = "string" /\ fields.sentiment.val \in Sentiments
    /\ fields.category.type = "string" /\ fields.category.val \in Categories
    /\ fields.priority.type = "string" /\ fields.priority.val \in Priorities
    /\ fields.resolution_status.type = "string"
    /\ fields.resolution_status.val \in ResolutionStatuses
    /\ fields.summary.type = "list" /\ fields.action_items.type = "list"
    /\ fields.customer_requests.type = "list" /\ fields.tags.type = "list"

\* C16: whatever the capability answers, the record generate_summary_from_text
\* returns is a dict with sentiment, category, priority and resolution status
\* in their closed sets and summary, action items, customer requests and tags
\* lists, and so is every insight persisted from it.
C16_ExtractorRecordWellFormed ==
    extract.pc = "done" =>
      /\ extract.result.dict
      /\ WellFormed(extract.result.fields)
      /\ WellFormed(PersistedInsights(extract.result.fields))

\* a non-list value wrapped into a single-element list
Wrapped(v) == List(v.val)

\* C17: after a successful parse every field is coerced on its own: a list
\* field that is not a list becomes the single-element list of the value
\* received, a follow-up flag that is not a boolean becomes false, an
\* unrecognised resolution status becomes pending, a valid field stays as it
\* is.
C17_FieldsCoercedIndependently ==
    (extract.pc = "done" /\ extract.response.kind = "bare") =>
      LET obj == extract.response.obj
          out == extract.result.fields
          ListOk(f) == out[f] = IF obj[f].type = "list" THEN obj[f] ELSE Wrapped(obj[f])
      IN /\ extract.result.from = "parsed"
         /\ \A f \in {"summary", "action_items", "customer_requests", "tags"} : ListOk(f)
         /\ out.follow_up_required =
              IF obj.follow_up_required.type = "bool"
              THEN obj.follow_up_required ELSE Bool("false")
         /\ out.resolution_status =
              IF obj.resolution_status.val \in ResolutionStatuses
              THEN obj.resolution_status ELSE Str("pending")

\* C18: content that is a JSON object inside a fence or after other leading
\* text is parsed from its first "{" to its last "}": the result holds the
\* insights of that object and is not the fallback record.
C18_WrappedObjectParsed ==
    (extract.pc = "done" /\ extract.response.kind \in {"fenced", "prefixed"}) =>
      /\ extract.result.from = "parsed"
      /\ \A f \in {"sentiment", "category", "priority"} :
           WellFormed(extract.response.obj) =>
             extract.result.fields[f] = extract.response.obj[f]

\* C19: a transcript longer than max_transcript_length is submitted as its
\* first max_transcript_length characters followed by the truncation marker,
\* a shorter one unchanged, in a single request.
C19_TranscriptTruncated ==
    extract.pc = "done" =>
      /\ extract.requests = 1
      /\ extract.submitted =
           IF extract.chars > max_transcript_length
           THEN [chars |-> max_transcript_length, marker |-> TRUE]
           ELSE [chars |-> extract.chars, marker |-> FALSE]

\* C21: a run attempts the sync only after it has persisted the final
\* summary and the analytics record and broadcast the summary; no call of
\* the run follows the sync but the closing write and broadcast; and whatever
\* the sync returned, the run then writes status ended (the status is ended
\* when that write succeeds) and ends with (completed, 1.0).
C21_SyncLastAndBestEffort ==
    /\ [](\A r \in EndIds :
         run[r].sync # "none" =>
           /\ run[r].saved /\ run[r].summary_broadcast
           /\ analytics[run[r].sid] >= 1
           /\ run[r].pc \in {"finish", "done"}
           /\ run[r].pc = "done" =>
                /\ LastEvent(r).stage = "completed"
                /\ LastEvent(r).progress = ProgressCompleted
                /\ run[r].update_data = EndedUpdate)
    /\ [][\A r \in EndIds :
            (run[r].sync # "none" /\ run[r].pc = "finish" /\ run'[r].pc = "done")
              => status'[run[r].sid] = "ended" \/ dbFaults' > dbFaults]_vars

\* A run that completed after its sync failed.
C21_Witness ==
    \E r \in EndIds :
      /\ run[r].pc = "done" /\ run[r].sync = "failed"
      /\ LastEvent(r).stage = "completed" /\ status[run[r].sid] = "ended"

\* C30: transcription is never run on the unconverted original: a task that
\* has called transcribe_audio called it on the enhanced file, or on the
\* converted file when enhancement failed; and a task whose conversion failed
\* ends with its call record failed (when that write succeeds), never
\* completed.
C30_NoStageAfterFailedConversion ==
    \A c \in CallIds :
      /\ hkTask[c].path \in {"none", "enhanced", "converted"}
      /\ (hkTask[c].pc = "done" /\ hkTask[c].path = "original")
           => hkCalls[c].status # "completed"

\* C22: the sync status asked of get_sync_status is one of not_synced,
\* pending, success, failed; once an attempt has been made it tells how the
\* last attempt went, failed after a failure and success with the record
\* identifier of that attempt after a success; and the entry's count equals
\* the number of attempts made for the session.
C22_SyncStatusTracksAttempts ==
    \A s \in Sessions :
      LET log == syncLog[s]
          now == IF crm[s] = "not_synced"
                 THEN [status |-> "not_synced", crm_record_id |-> 0]
                 ELSE [status |-> crm[s], crm_record_id |-> log.crm_record_id]
      IN /\ now.status \in {"not_synced", "pending", "success", "failed"}
         /\ log.last = "failed" => now.status = "failed"
         /\ log.last = "success" =>
              now.status = "success" /\ now.crm_record_id = log.attempts
         /\ log.retry_count = log.attempts

\* C23: a run broadcasts each of its stage transitions at most once, and a
\* broadcast goes, one copy each, to exactly the clients that are in the
\* session's room when it is made: a client outside the room is sent nothing
\* by the step, so one that joins later never gets the event and one that has
\* left gets no later event.
C23_BroadcastOnceToRoom ==
    /\ [](\A r \in EndIds : \A i, j \in 1..Len(run[r].events) :
            ( /\ run[r].events[i].stage = run[r].events[j].stage
              /\ run[r].events[i].idx = run[r].events[j].idx ) => i = j)
    /\ [][\A r \in EndIds :
            Len(run'[r].events) > Len(run[r].events) =>
              \A c \in Clients :
                LET ev == run'[r].events[Len(run'[r].events)]
                IN IF c \in socket.rooms[run[r].sid]
                   THEN socket'.received[c] = Append(socket.received[c], ev)
                   ELSE socket'.received[c] = socket.received[c]]_vars
    /\ [][(\A r \in EndIds : run'[r].events = run[r].events) /\ up' = up
            => socket'.received = socket.received]_vars

\* a client that joined during a run and has its later events only, next to a
\* client that left and has the earlier ones only
C23_Witness ==
    \E r \in EndIds :
      /\ run[r].pc = "done"
      /\ Len(run[r].events) >= 3
      /\ socket.rooms[run[r].sid] = {"c2"}
      /\ socket.received["c2"] # <<>>
      /\ Len(socket.received["c2"]) < Len(run[r].events)
      /\ socket.received["c2"][1].stage \notin {"processing", "uploaded"}
      /\ socket.received["c1"] = <<>>

\* C27: every speech segment (s, e) of an analysed clip of duration d has
\* 0 <= s < e <= d and e - s >= 0.1 s, and the segments are in increasing
\* order and pairwise disjoint, the one closed at the clip's end included.
C27_SegmentsWellFormed ==
    (analysis.pc = "done" /\ analysis.fault = "none" /\ analysis.y_len > 0) =>
      LET segs == analysis.result.speech_segments
          d == analysis.result.duration
      IN /\ \A j \in 1..Len(segs) :
              /\ 0 <= segs[j][1]
              /\ segs[j][1] < segs[j][2]
              /\ segs[j][2] <= d
              /\ segs[j][2] - segs[j][1] >= MinSegment
         /\ \A j \in 1..(Len(segs) - 1) : segs[j][2] <= segs[j + 1][1]

\* C28: for every clip, the empty one and the ones with no frame above the
\* threshold included, the analysis gives a silence_ratio between 0 and 1
\* equal to 1 minus the speech time over the duration.
C28_SilenceRatioDefined ==
    (analysis.pc = "done" /\ analysis.fault = "none") =>
      /\ "silence_ratio" \in DOMAIN analysis.result
      /\ LET r == analysis.result.silence_ratio
         IN /\ r.den > 0
            /\ 0 <= r.num /\ r.num <= r.den
            /\ r.den = analysis.y_len
            /\ r.num = analysis.y_len - SpeechTime(analysis.result.speech_segments)

\* C29: when anything fails inside the analysis, segment detection included,
\* the result carries the error indicator and no numeric field.
C29_FailureCarriesOnlyError ==
    (analysis.pc = "done" /\ analysis.fault # "none") =>
      DOMAIN analysis.result = {"error"}

\* C24: redaction is idempotent: a redactor applied to its own output gives
\* that output back, for every text of the bounded alphabet.
C24_RedactionIdempotent ==
    redact.applied = 2 => redact.again = redact.out

\* the occurrences of a literal in a text, counted from left to right
RECURSIVE CountFrom(_, _, _)
CountFrom(w, t, p) ==
    IF p > Len(t) THEN 0
    ELSE IF \A k \in 1..Len(w) : At(t, p + k - 1) = w[k]
    THEN 1 + CountFrom(w, t, p + Len(w))
    ELSE CountFrom(w, t, p + 1)

\* C25: in a text with m name matches, all of two words or all of three, the
\* first match stays as it is and the other m - 1 are each replaced by the
\* name placeholder; with m <= 1 no name is replaced.
C25_FirstNameKeptOthersMasked ==
    redact.applied >= 1 =>
      LET t == ApplySteps(PhoneSteps \o AmountSteps, redact.text, 1)
          two == FindIter("name2", t)
          three == FindIter("name3", t)
          m == Len(two)
          masked == CountFrom(CUSTOMER_NAME, redact.out, 1)
      IN (Len(three) = 0 \/ Len(three) = m) =>
           /\ masked = (IF m >= 1 THEN m - 1 ELSE 0)
           /\ m >= 1 => /\ Len(redact.out) >= two[1][2]
                        /\ SubSeq(redact.out, 1, two[1][2]) = SubSeq(t, 1, two[1][2])

\* "call [PHONE_NUMBER] about [AMOUNT]"
ExampleRedacted ==
    Words.call \o <<" ">> \o PHONE_NUMBER \o <<" ">> \o Words.about \o <<" ">> \o AMOUNT

\* C26: "call 0788 405 008 about 500 Zig" is redacted to exactly
\* "call [PHONE_NUMBER] about [AMOUNT]": the digits are taken by the phone
\* class, applied first, and no later class matches in what is left.
C26_ExampleRedacted ==
    (redact.applied >= 1 /\ redact.tokens = ExampleTokens) =>
      /\ redact.out = ExampleRedacted
      /\ ApplySteps(PhoneSteps, redact.text, 1) =
           Words.call \o <<" ">> \o PHONE_NUMBER \o <<" ">> \o Words.about
             \o <<" ">> \o Words.n500 \o <<" ">> \o Words.Zig
      /\ redact.applied = 2 => redact.again = ExampleRedacted

C26_Witness ==
    /\ redact.tokens = ExampleTokens
    /\ redact.redactor = "_sanitize_transcript"
    /\ redact.applied = 2
    /\ redact.out = ExampleRedacted

\* the runs started for a session
RunsOf(s) == {r \in EndIds : run[r].pc # "idle" /\ run[r].sid = s}

\* C31: at most one pipeline run is ever started per session, and an end_call
\* request for a session that is already processing or ended schedules no
\* run and leaves the session's status as it was.
C31_AtMostOneRunPerSession ==
    [](\A s \in Sessions : Cardinality(RunsOf(s)) <= 1)
    /\ [][\A e \in EndIds :
            (en[e].pc \in {"read", "ended"} /\ en'[e] # en[e]
             /\ status[en[e].sid] \in {"processing", "ended"}
             /\ \E f \in EndIds : f # e /\ en[f].pc \in {"ended", "done"}
                                  /\ en[f].cause = "none" /\ en[f].sid = en[e].sid)
            => (status' = status /\ run' = run)]_vars

\* The uploads of session s answered 200: the accepted ones.
AcceptedUploads(s) ==
    {u \in UploadIds : up[u].pc = "done" /\ up[u].sid = s /\ up[u].resp = HTTP_OK}

\* C32: once no upload of a session is between its read and its write, and
\* no write to the store has failed, the artifact list of the session holds
\* the artifact of every accepted upload, each exactly once.
C32_AllAcceptedArtifactsKept ==
    \A s \in Sessions :
      (dbFaults = 0 /\ \A u \in UploadIds : up[u].pc # "saving")
        => /\ AcceptedUploads(s) = Range(audio_files[s])
           /\ Len(audio_files[s]) = Cardinality(AcceptedUploads(s))

\* C33: no artifact is written to a session whose status has left active,
\* and the list handed to a run of the session holds the artifact of every
\* upload of the session that was accepted.
C33_AcceptedArtifactsDrained ==
    /\ [][\A s \in Sessions :
            audio_files'[s] # audio_files[s] => status[s] = "active"]_vars
    /\ [](\A r \in EndIds :
            run[r].pc # "idle" => AcceptedUploads(run[r].sid) \subseteq Range(run[r].files))

\* C34: a run that has terminated with the error event has persisted no
\* final summary, and a run that has persisted a final summary has also
\* persisted the analytics record and sent the completed event.
C34_NoPartialCommit ==
    \A r \in EndIds :
      run[r].pc = "done" =>
        /\ LastEvent(r).stage = "error" => ~run[r].saved
        /\ run[r].saved => (LastEvent(r).stage = "completed" /\ run[r].sync # "none")

\* C35: the id of a client that has disconnected is in the client list of no
\* session of the registry.
C35_DisconnectedClientUntracked ==
    \A c \in socket.gone : \A i \in 1..Len(socket.active_sessions) :
      \A j \in 1..Len(socket.active_sessions[i].clients) :
        socket.active_sessions[i].clients[j] # c

\* The task of call c has ended through its except clause: transcription
\* raised, or the update could not be built from the extraction result.
TaskRaised(c) ==
    hkTask[c].pc = "done" /\ (hkTask[c].transcript = "none" \/ hkTask[c].data = "non_dict")

\* C36: a call record that is completed or failed keeps its status; a
\* completed record holds the transcription that was made; and when the task
\* of a record has ended, the record is failed if a step raised and completed
\* otherwise, and no longer processing.
C36_StatusChangesOnceToOutcome ==
    /\ [][\A c \in CallIds :
            hkCalls[c].status \in {"completed", "failed"}
              => hkCalls'[c].status = hkCalls[c].status]_vars
    /\ [](\A c \in CallIds :
            /\ hkCalls[c].status = "completed" => hkCalls[c].transcript # "none"
            /\ hkTask[c].pc = "done"
                 => hkCalls[c].status = IF TaskRaised(c) THEN "failed" ELSE "completed")

\* C37: an answer made from a failed record does not say "processing" in
\* the progress of get_call_status, is not 'Transcript not ready yet' from
\* get_call_transcript, and is the 500 'Processing failed' of
\* get_call_summary.
C37_FailedRecordReportedAsFailed ==
    \A c \in CallIds :
      /\ hkQuery[c].status.of = "failed" => hkQuery[c].status.detail # "processing"
      /\ hkQuery[c].transcript.of = "failed"
           => hkQuery[c].transcript.detail # "Transcript not ready yet"
      /\ hkQuery[c].summary.of = "failed"
           => /\ hkQuery[c].summary.code = HTTP_SERVER_ERROR
              /\ hkQuery[c].summary.detail = "Processing failed"

\* The text from the end of match k - 1 on, with the matches from the k-th on
\* each replaced by one name placeholder and the text between them kept.
RECURSIVE MaskSpans(_, _, _)
MaskSpans(t, matches, k) ==
    IF k > Len(matches) THEN SubSeq(t, matches[k - 1][2] + 1, Len(t))
    ELSE SubSeq(t, matches[k - 1][2] + 1, matches[k][1]) \o CUSTOMER_NAME
           \o MaskSpans(t, matches, k + 1)

\* The text with every match but the first replaced by one name placeholder
\* and every other character kept, in order.
OnlyNamesMasked(t, matches) ==
    IF Len(matches) <= 1 THEN t
    ELSE SubSeq(t, 1, matches[1][2]) \o MaskSpans(t, matches, 2)

\* C38: each name-masking step of a redactor that has been applied turns the
\* text it is given into that text with every masked match replaced by one
\* name placeholder and every character outside the masked matches kept.
C38_NameMaskingChangesOnlyNames ==
    redact.applied >= 1 =>
      LET steps == RedactorSteps[redact.redactor]
      IN \A k \in 1..Len(steps) :
           steps[k].kind # "sub" =>
             LET before == ApplySteps(SubSeq(steps, 1, k - 1), redact.text, 1)
             IN ApplyStep(steps[k], before)
                  = OnlyNamesMasked(before, FindIter(steps[k].pattern, before))

====
